---- MODULE Spec2Model ----
(***************************************************************************)
(* Model of backend/crash_detection.py: the per-frame crash heuristic      *)
(* pipeline of process_video (visual artifact analysis, kinematics         *)
(* tracking, disappearance monitor, crash scorer, incident deduplication)  *)
(* over the module-level session state.                                    *)
(*                                                                         *)
(* Python values are represented as follows.                               *)
(*   None / a value      <<>> / <<v>>                                      *)
(*   list, deque         sequence (a deque(maxlen=n) drops its head)       *)
(*   dict, defaultdict   function whose DOMAIN is the key set              *)
(*   a frame image       [lap |-> Laplacian variance, gray |-> mean grey]  *)
(*   a float quotient    <<numerator, denominator>>                        *)
(*   an evidence f-string its leading tag (the formatted number dropped)   *)
(* Vehicle ids are opaque dictionary keys and are written as strings.      *)
(***************************************************************************)
EXTENDS Integers, Sequences, FiniteSets, TLC

VARIABLES
    pc,                      \* "idle": outside process_video; "loop": in its frame
                             \* loop; "raised": left by an uncaught exception
    frame_count,             \* local of process_video
    crash_count,             \* local of process_video
    detections,              \* local: this frame's detection list
    visual_artifacts,        \* local: this frame's artifact dict
    crashes,                 \* local: detect_comprehensive_crashes' result
    all_crashes,             \* local: crashes + disappearance_crashes
    scene_descriptions, vehicle_classifications, traffic_elements,
    weather_conditions, video_metadata,
    crash_detected_frame, total_unique_crashes, crash_frames,
    track_history, previous_positions, velocities, accelerations,
    crash_alerts, crash_confirmations,
    bbox_history, bbox_growth_rates,
    active_vehicles, last_seen_frame, vehicle_last_positions,
    previous_frame, blur_history, motion_history, brightness_history,
    impact_flags,            \* history: which of the three impact tests fired this frame
    last_evidence_frame,     \* history: the latest frame whose all_crashes was non-empty
    first_evidence_frame,    \* history: the first such frame of the session
    crash_scores,            \* local of the scorer: its crash_scores dict at return
    crash_evidence,          \* local of the scorer: its crash_evidence dict at return
    disappearance_scores,    \* local of the monitor: disappearance_score per vanished id
    cleared_from,            \* history: Some(globals clear_tracking_data just replaced)
    downstream_log,          \* history: what process_video did after its frame loop
    parked,                  \* the locals of a second thread that is not running
    frame_generator          \* the locals of the running _frame_generator of stream.py

crash_detection_vars ==
        <<pc, frame_count, crash_count, detections, visual_artifacts, crashes, all_crashes,
          scene_descriptions, vehicle_classifications, traffic_elements,
          weather_conditions, video_metadata,
          crash_detected_frame, total_unique_crashes, crash_frames,
          track_history, previous_positions, velocities, accelerations,
          crash_alerts, crash_confirmations, bbox_history, bbox_growth_rates,
          active_vehicles, last_seen_frame, vehicle_last_positions,
          previous_frame, blur_history, motion_history, brightness_history,
          impact_flags, last_evidence_frame, first_evidence_frame,
          crash_scores, crash_evidence, disappearance_scores, cleared_from,
          downstream_log, parked>>

vars == <<crash_detection_vars, frame_generator>>

----------------------------------------------------------------------------
(* Python helpers *)

None == <<>>

Some(v) == <<v>>

Max2(a, b) == IF a >= b THEN a ELSE b

Min2(a, b) == IF a <= b THEN a ELSE b

Abs(a) == IF a >= 0 THEN a ELSE -a

\* as DequeAppend, but a full deque refuses the new sample instead of dropping
\* its head
DequeAppendDropNewest(q, x, n) ==
    IF Len(q) >= n THEN q ELSE Append(q, x)

\* deque(maxlen=n).append(x)
DequeAppend(q, x, n) ==
    LET s == Append(q, x)
    IN  IF Len(s) > n THEN SubSeq(s, Len(s) - n + 1, Len(s)) ELSE s

\* list(q)[-k:]
LastK(q, k) == IF Len(q) <= k THEN q ELSE SubSeq(q, Len(q) - k + 1, Len(q))

\* q[-1]
Last(q) == q[Len(q)]

\* d.get(k, default) of a dict; d[k] of a defaultdict whose factory gives default
Get(d, k, default) == IF k \in DOMAIN d THEN d[k] ELSE default

\* d[k] = v
Put(d, k, v) == [x \in DOMAIN d \cup {k} |-> IF x = k THEN v ELSE d[x]]

\* reading d[k] for every k of S on a defaultdict(lambda: deque()) creates the keys
Touch(d, S) == [x \in DOMAIN d \cup S |-> IF x \in DOMAIN d THEN d[x] ELSE <<>>]

EmptyDict == [x \in {} |-> <<>>]

\* integer square root; exact on the squared distances of the position domain
ISqrt(n) == CHOOSE r \in 0..n : r * r <= n /\ (r + 1) * (r + 1) > n

----------------------------------------------------------------------------
(* Configuration and capacities of the module-level state *)

TRACK_HISTORY_MAXLEN == 30

VELOCITIES_MAXLEN == 10

ACCELERATIONS_MAXLEN == 5

BBOX_HISTORY_MAXLEN == 10

BBOX_GROWTH_RATES_MAXLEN == 5

BLUR_HISTORY_MAXLEN == 10

MOTION_HISTORY_MAXLEN == 5

BRIGHTNESS_HISTORY_MAXLEN == 5

CAMERA_SHAKE_THRESHOLD == 15

BLUR_SPIKE_THRESHOLD == 50

BRIGHTNESS_CHANGE_THRESHOLD == 30

\* crash_threshold of detect_comprehensive_crashes
CrashThreshold == 120

\* the frame gap of the deduplication in process_video
CooldownFrames == 10

\* the cap on crash_frames in the "same crash continuing" branch
MaxCrashFrames == 4

\* frame_count % 10 == 0 sampling of collect_frame_data
SampleEvery == 10

\* height of the video, as the default frame_height of detect_comprehensive_crashes
FrameHeight == 720

\* float('inf'): larger than every distance of the position domain
Infinity == 1000000

----------------------------------------------------------------------------
(* Pure geometry and kinematics helpers *)

\* as calculate_distance, but the second point's coordinates are swapped
calculate_distanceSwapped(point1, point2) ==
    ISqrt((point1[1] - point2[2]) * (point1[1] - point2[2])
          + (point1[2] - point2[1]) * (point1[2] - point2[1]))

calculate_distance(point1, point2) ==
    ISqrt((point1[1] - point2[1]) * (point1[1] - point2[1])
          + (point1[2] - point2[2]) * (point1[2] - point2[2]))

\* previous_pos is None or Some(position)
calculate_velocity(current_pos, previous_pos) ==
    IF previous_pos = None THEN 0
    ELSE calculate_distance(current_pos, previous_pos[1])

calculate_bbox_area(bbox) == bbox[3] * bbox[4]

RECURSIVE GCD(_, _)
GCD(a, b) == IF b = 0 THEN a ELSE GCD(b, a % b)

\* as calculate_bbox_growth_rate, but a previous area of 0 gives growth 0
calculate_bbox_growth_rateZero(current_area, previous_area) ==
    IF previous_area = 0 THEN <<0, 1>>
    ELSE LET g == GCD(current_area, previous_area)
         IN  <<current_area \div g, previous_area \div g>>

\* the quotient current_area / previous_area, kept as <<numerator, denominator>>
\* in lowest terms (equal quotients are equal values)
calculate_bbox_growth_rate(current_area, previous_area) ==
    IF previous_area = 0 THEN <<1, 1>>
    ELSE LET g == GCD(current_area, previous_area)
         IN  <<current_area \div g, previous_area \div g>>

\* r > k for a quotient r with positive denominator and an integer k
RateGT(r, k) == r[1] > k * r[2]

\* max() of a non-empty sequence of quotients
RECURSIVE RateMax(_)
RateMax(rs) ==
    IF Len(rs) = 1 THEN rs[1]
    ELSE LET m == RateMax(Tail(rs))
         IN  IF rs[1][1] * m[2] >= m[1] * rs[1][2] THEN rs[1] ELSE m

\* bbox_bottom / frame_height > 0.85
is_bbox_at_bottom(bbox, frame_height) ==
    100 * (bbox[2] + bbox[4]) > 85 * frame_height

----------------------------------------------------------------------------
(* Visual artifact detector *)

\* flow: the mean displacement cv2.calcOpticalFlowPyrLK measures between the frames
detect_camera_shake(flow, prev_frame) ==
    IF prev_frame = None THEN 0 ELSE flow

detect_blur_spike(frame) == Max2(0, 1000 - frame.lap)

detect_brightness_change(frame) == frame.gray

\* as SpikeAbove, but it already tests a history of two samples
SpikeAboveFromTwo(history, threshold) ==
    /\ Len(history) >= 2
    /\ LET recent == LastK(history, 3)
       IN  IF Len(recent) = 2
           THEN recent[2] > recent[1] + threshold
           ELSE 2 * recent[3] > recent[1] + recent[2] + 2 * threshold

\* current > np.mean(previous two) + threshold on the last three samples
SpikeAbove(history, threshold) ==
    /\ Len(history) >= 3
    /\ LET recent == LastK(history, 3)
       IN  2 * recent[3] > recent[1] + recent[2] + 2 * threshold

\* abs(current - np.mean(previous two)) > threshold on the last three samples
ChangeAbove(history, threshold) ==
    /\ Len(history) >= 3
    /\ LET recent == LastK(history, 3)
       IN  Abs(2 * recent[3] - (recent[1] + recent[2])) > 2 * threshold

MotionAfter(flow) ==
    IF previous_frame # None
    THEN DequeAppend(motion_history, detect_camera_shake(flow, previous_frame),
                     MOTION_HISTORY_MAXLEN)
    ELSE motion_history

BlurAfter(frame) ==
    DequeAppend(blur_history, detect_blur_spike(frame), BLUR_HISTORY_MAXLEN)

BrightnessAfter(frame) ==
    DequeAppend(brightness_history, detect_brightness_change(frame),
                BRIGHTNESS_HISTORY_MAXLEN)

ShakeFlag(flow) ==
    previous_frame # None /\ SpikeAbove(MotionAfter(flow), CAMERA_SHAKE_THRESHOLD)

BlurFlag(frame) == SpikeAbove(BlurAfter(frame), BLUR_SPIKE_THRESHOLD)

BrightnessFlag(frame) == ChangeAbove(BrightnessAfter(frame), BRIGHTNESS_CHANGE_THRESHOLD)

\* the artifacts dict analyze_visual_artifacts returns
analyze_visual_artifacts(frame, flow) ==
    [camera_shake |-> IF previous_frame # None
                      THEN detect_camera_shake(flow, previous_frame) ELSE 0,
     blur_spike |-> detect_blur_spike(frame),
     brightness_change |-> detect_brightness_change(frame),
     impact_detected |-> ShakeFlag(flow) \/ BlurFlag(frame) \/ BrightnessFlag(frame)]

----------------------------------------------------------------------------
(* Kinematics tracker.  T is the tracking state: a record of the module-level
   maps update_tracking declares global. *)

Tracking ==
    [track_history |-> track_history, previous_positions |-> previous_positions,
     velocities |-> velocities, accelerations |-> accelerations,
     bbox_history |-> bbox_history, bbox_growth_rates |-> bbox_growth_rates,
     active_vehicles |-> active_vehicles, last_seen_frame |-> last_seen_frame,
     vehicle_last_positions |-> vehicle_last_positions]

\* {d['id'] for d in detections}
IdSet(dets) == {dets[i].id : i \in DOMAIN dets}

\* the body of the for loop of update_tracking for one detection
UpdateOne(T, detection, fc) ==
    LET vehicle_id == detection.id
        center == detection.center
        current_area == calculate_bbox_area(detection.bbox)
        th == DequeAppend(Get(T.track_history, vehicle_id, <<>>), center,
                          TRACK_HISTORY_MAXLEN)
        bh == DequeAppend(Get(T.bbox_history, vehicle_id, <<>>), current_area,
                          BBOX_HISTORY_MAXLEN)
        gr == IF Len(bh) >= 2
              THEN Put(T.bbox_growth_rates, vehicle_id,
                       DequeAppend(Get(T.bbox_growth_rates, vehicle_id, <<>>),
                                   calculate_bbox_growth_rate(current_area, bh[Len(bh) - 1]),
                                   BBOX_GROWTH_RATES_MAXLEN))
              ELSE T.bbox_growth_rates
        seen == vehicle_id \in DOMAIN T.previous_positions
        vs == IF seen
              THEN DequeAppend(Get(T.velocities, vehicle_id, <<>>),
                               calculate_velocity(center,
                                                  Some(T.previous_positions[vehicle_id])),
                               VELOCITIES_MAXLEN)
              ELSE <<>>
        ac == IF seen /\ Len(vs) >= 2
              THEN Put(T.accelerations, vehicle_id,
                       DequeAppend(Get(T.accelerations, vehicle_id, <<>>),
                                   vs[Len(vs)] - vs[Len(vs) - 1],
                                   ACCELERATIONS_MAXLEN))
              ELSE T.accelerations
    IN  [T EXCEPT
            !.last_seen_frame = Put(@, vehicle_id, fc),
            !.vehicle_last_positions = Put(@, vehicle_id, center),
            !.track_history = Put(@, vehicle_id, th),
            !.bbox_history = Put(@, vehicle_id, bh),
            !.bbox_growth_rates = gr,
            !.velocities = IF seen THEN Put(@, vehicle_id, vs) ELSE @,
            !.accelerations = ac,
            !.previous_positions = Put(@, vehicle_id, center)]

RECURSIVE UpdateEach(_, _, _)
UpdateEach(T, dets, fc) ==
    IF dets = <<>> THEN T
    ELSE UpdateEach(UpdateOne(T, Head(dets), fc), Tail(dets), fc)

\* update_tracking with the previous position of an id forgotten on a frame
\* that does not detect it
update_trackingForgetsLost(T, dets, fc) ==
    UpdateEach([T EXCEPT !.active_vehicles = @ \cup IdSet(dets),
                         !.previous_positions =
                             [id \in DOMAIN @ \cap IdSet(dets) |-> @[id]]],
               dets, fc)

\* update_tracking with active_vehicles set to the ids of the frame
update_trackingActiveIsCurrent(T, dets, fc) ==
    UpdateEach([T EXCEPT !.active_vehicles = IdSet(dets)], dets, fc)

update_tracking(T, dets, fc) ==
    UpdateEach([T EXCEPT !.active_vehicles = @ \cup IdSet(dets)], dets, fc)

----------------------------------------------------------------------------
(* Crash scorer.  S is the pair of dicts crash_scores / crash_evidence, with
   the insertion order of their keys. *)

\* crash_scores[id] += points; crash_evidence[id].append(tag)
AddScore(S, id, points, tag) ==
    [S EXCEPT !.scores[id] = @ + points, !.evidence[id] = Append(@, tag)]

\* the keys of crash_scores in insertion order: first occurrences of the ids
RECURSIVE KeyOrder(_, _)
KeyOrder(dets, acc) ==
    IF dets = <<>> THEN acc
    ELSE KeyOrder(Tail(dets),
                  IF \E i \in DOMAIN acc : acc[i] = Head(dets).id
                  THEN acc ELSE Append(acc, Head(dets).id))

InitScores(dets) ==
    [scores |-> [id \in IdSet(dets) |-> 0],
     evidence |-> [id \in IdSet(dets) |-> <<>>],
     order |-> KeyOrder(dets, <<>>)]

\* velocities[id][-1] if velocities[id] else 0 (and likewise accelerations)
LastOrZero(d, id) ==
    LET q == Get(d, id, <<>>) IN IF q # <<>> THEN Last(q) ELSE 0

\* ShakeTier with the tier limits counted into the higher tier
ShakeTierInclusive(va) ==
    IF ~va.impact_detected THEN [points |-> 0, tag |-> "", vehicleless |-> FALSE]
    ELSE IF va.camera_shake >= 200
    THEN [points |-> 150, tag |-> "Major shake", vehicleless |-> TRUE]
    ELSE IF va.camera_shake >= 100
    THEN [points |-> 100, tag |-> "Strong shake", vehicleless |-> TRUE]
    ELSE IF va.camera_shake >= 50
    THEN [points |-> 60, tag |-> "Moderate shake", vehicleless |-> FALSE]
    ELSE [points |-> 0, tag |-> "", vehicleless |-> FALSE]

\* the tier of the global visual impact: points, tag, and whether the tier
\* reports a vehicle-less crash when no vehicle is detected
ShakeTier(va) ==
    IF ~va.impact_detected THEN [points |-> 0, tag |-> "", vehicleless |-> FALSE]
    ELSE IF va.camera_shake > 200
         THEN [points |-> 150, tag |-> "Major shake", vehicleless |-> TRUE]
    ELSE IF va.camera_shake > 100
         THEN [points |-> 100, tag |-> "Strong shake", vehicleless |-> TRUE]
    ELSE IF va.camera_shake > 50
         THEN [points |-> 60, tag |-> "Moderate shake", vehicleless |-> FALSE]
    ELSE [points |-> 0, tag |-> "", vehicleless |-> FALSE]

RECURSIVE AddToAll(_, _, _, _)
AddToAll(S, ids, points, tag) ==
    IF ids = <<>> THEN S
    ELSE AddToAll(AddScore(S, Head(ids), points, tag), Tail(ids), points, tag)

\* VISUAL ARTIFACTS SCORING on the per-vehicle scores
VisualScoring(S, va) ==
    LET t == ShakeTier(va)
    IN  IF t.points > 0 /\ S.order # <<>>
        THEN AddToAll(S, S.order, t.points, t.tag)
        ELSE S

\* as UnknownCrashes, but the severity is the tier's score, not the shake
UnknownCrashesTierSeverity(dets, va) ==
    LET t == ShakeTier(va)
    IN  IF t.vehicleless /\ IdSet(dets) = {}
        THEN << [type |-> "crash", vehicle_id |-> "unknown", position |-> <<640, 360>>,
                 severity |-> t.points, evidence |-> <<t.tag>>] >>
        ELSE <<>>

\* UnknownCrashes with the vehicle-less crash added whether or not vehicles
\* are scored
UnknownCrashesBesideVehicles(dets, va) ==
    LET t == ShakeTier(va)
    IN  IF t.vehicleless
        THEN << [type |-> "crash", vehicle_id |-> "unknown", position |-> <<640, 360>>,
                 severity |-> va.camera_shake, evidence |-> <<t.tag>>] >>
        ELSE <<>>

\* UnknownCrashes with the vehicle-less crash held to the threshold of the
\* per-vehicle crashes
UnknownCrashesAboveThreshold(dets, va) ==
    LET t == ShakeTier(va)
    IN  IF t.vehicleless /\ IdSet(dets) = {} /\ va.camera_shake >= 120
        THEN << [type |-> "crash", vehicle_id |-> "unknown", position |-> <<640, 360>>,
                 severity |-> va.camera_shake, evidence |-> <<t.tag>>] >>
        ELSE <<>>

\* the vehicle-less crash of a frame without detections
UnknownCrashes(dets, va) ==
    LET t == ShakeTier(va)
    IN  IF t.vehicleless /\ IdSet(dets) = {}
        THEN << [type |-> "crash", vehicle_id |-> "unknown", position |-> <<640, 360>>,
                 severity |-> va.camera_shake, evidence |-> <<t.tag>>] >>
        ELSE <<>>

\* as GrowthScoring, but the growth tier is chosen on the latest growth rate
\* instead of the largest of the last three
GrowthScoringLatestRate(S, T, det, frame_height) ==
    LET id1 == det.id
        rates == Get(T.bbox_growth_rates, id1, <<>>)
    IN  IF Len(rates) >= 3
        THEN LET max_growth_rate == Last(rates)
                 areas == Get(T.bbox_history, id1, <<>>)
                 current_area == IF areas # <<>> THEN Last(areas) ELSE 0
                 S1 == IF RateGT(max_growth_rate, 5)
                       THEN AddScore(S, id1, 60, "Extreme growth")
                       ELSE IF RateGT(max_growth_rate, 3)
                       THEN AddScore(S, id1, 40, "High growth")
                       ELSE IF RateGT(max_growth_rate, 2)
                       THEN AddScore(S, id1, 25, "Moderate growth")
                       ELSE S
                 S2 == IF current_area > 50000
                       THEN AddScore(S1, id1, 25, "Large area")
                       ELSE IF current_area > 30000
                       THEN AddScore(S1, id1, 15, "Medium area")
                       ELSE S1
             IN  IF is_bbox_at_bottom(det.bbox, frame_height)
                 THEN AddScore(S2, id1, 15, "Bottom frame position")
                 ELSE S2
        ELSE S

\* BOUNDING BOX GROWTH SCORING for one detection
GrowthScoring(S, T, det, frame_height) ==
    LET id1 == det.id
        rates == Get(T.bbox_growth_rates, id1, <<>>)
    IN  IF Len(rates) >= 3
        THEN LET max_growth_rate == RateMax(LastK(rates, 3))
                 areas == Get(T.bbox_history, id1, <<>>)
                 current_area == IF areas # <<>> THEN Last(areas) ELSE 0
                 S1 == IF RateGT(max_growth_rate, 5)
                       THEN AddScore(S, id1, 60, "Extreme growth")
                       ELSE IF RateGT(max_growth_rate, 3)
                       THEN AddScore(S, id1, 40, "High growth")
                       ELSE IF RateGT(max_growth_rate, 2)
                       THEN AddScore(S, id1, 25, "Moderate growth")
                       ELSE S
                 S2 == IF current_area > 50000
                       THEN AddScore(S1, id1, 25, "Large area")
                       ELSE IF current_area > 30000
                       THEN AddScore(S1, id1, 15, "Medium area")
                       ELSE S1
             IN  IF is_bbox_at_bottom(det.bbox, frame_height)
                 THEN AddScore(S2, id1, 15, "Bottom frame position")
                 ELSE S2
        ELSE S

\* VELOCITY AND ACCELERATION SCORING for one detection
VelocityScoring(S, T, det) ==
    LET id1 == det.id
        current_vel == LastOrZero(T.velocities, id1)
    IN  IF current_vel > 50 THEN AddScore(S, id1, 25, "High velocity")
        ELSE IF current_vel > 30 THEN AddScore(S, id1, 15, "Medium velocity")
        ELSE S

\* "Check for extreme deceleration" for one detection
DecelerationScoring(S, T, det) ==
    LET id1 == det.id
        accs == Get(T.accelerations, id1, <<>>)
    IN  IF Len(accs) >= 2
        THEN IF Last(accs) < -100 THEN AddScore(S, id1, 40, "Extreme deceleration")
             ELSE IF Last(accs) < -50 THEN AddScore(S, id1, 25, "High deceleration")
             ELSE S
        ELSE S

\* as PairScoring, but only detection1 of the pair is scored
PairScoringOneSided(S, T, d1, d2) ==
    LET id1 == d1.id
        id2 == d2.id
        current_vel == LastOrZero(T.velocities, id1)
        vel2 == LastOrZero(T.velocities, id2)
        distance == calculate_distance(d1.center, d2.center)
        S1 == IF distance < 50 /\ (current_vel > 60 \/ vel2 > 60)
              THEN AddScore(S, id1, 40, "High-speed close approach")
              ELSE S
    IN  IF distance < 30
           /\ (LastOrZero(T.accelerations, id1) < -30
               \/ LastOrZero(T.accelerations, id2) < -30)
        THEN AddScore(S1, id1, 35, "Close proximity with deceleration")
        ELSE S1

\* the body of the inner loop: one pair detection1, detection2
PairScoring(S, T, d1, d2) ==
    LET id1 == d1.id
        id2 == d2.id
        current_vel == LastOrZero(T.velocities, id1)
        vel2 == LastOrZero(T.velocities, id2)
        distance == calculate_distance(d1.center, d2.center)
        S1 == IF distance < 50 /\ (current_vel > 60 \/ vel2 > 60)
              THEN AddScore(AddScore(S, id1, 40, "High-speed close approach"),
                            id2, 40, "High-speed close approach")
              ELSE S
    IN  IF distance < 30
           /\ (LastOrZero(T.accelerations, id1) < -30
               \/ LastOrZero(T.accelerations, id2) < -30)
        THEN AddScore(AddScore(S1, id1, 35, "Close proximity with deceleration"),
                      id2, 35, "Close proximity with deceleration")
        ELSE S1

\* for j, detection2 in enumerate(detections[i+1:], i+1)
RECURSIVE PairLoop(_, _, _, _, _)
PairLoop(S, T, dets, i, j) ==
    IF j > Len(dets) THEN S
    ELSE PairLoop(PairScoring(S, T, dets[i], dets[j]), T, dets, i, j + 1)

\* for i, detection1 in enumerate(detections)
RECURSIVE VehicleLoop(_, _, _, _, _)
VehicleLoop(S, T, dets, i, frame_height) ==
    IF i > Len(dets) THEN S
    ELSE LET own == DecelerationScoring(
                        VelocityScoring(
                            GrowthScoring(S, T, dets[i], frame_height), T, dets[i]),
                        T, dets[i])
         IN  VehicleLoop(PairLoop(own, T, dets, i, i + 1), T, dets, i + 1, frame_height)

\* crash_scores / crash_evidence at the end of the scoring loops
FinalScores(T, dets, frame_height, va) ==
    VehicleLoop(VisualScoring(InitScores(dets), va), T, dets, 1, frame_height)

\* as Emits, with the threshold the comment says was raised: 70
EmitsOldThreshold(score) == score >= 70

\* as Emits, but a score equal to the threshold is not emitted
EmitsAboveThreshold(score) == score > CrashThreshold

\* score >= crash_threshold
Emits(score) == score >= CrashThreshold

\* EVALUATE CRASH SCORES: one crash per key whose score reaches the threshold
RECURSIVE EvaluateScores(_, _, _)
EvaluateScores(S, T, ids) ==
    IF ids = <<>> THEN <<>>
    ELSE LET vehicle_id == Head(ids)
             rest == EvaluateScores(S, T, Tail(ids))
         IN  IF Emits(S.scores[vehicle_id])
             THEN << [type |-> "crash", vehicle_id |-> vehicle_id,
                      position |-> Get(T.vehicle_last_positions, vehicle_id, <<0, 0>>),
                      severity |-> S.scores[vehicle_id],
                      evidence |-> S.evidence[vehicle_id]] >> \o rest
             ELSE rest

detect_comprehensive_crashes(T, dets, frame_height, va) ==
    LET S == FinalScores(T, dets, frame_height, va)
    IN  UnknownCrashes(dets, va) \o EvaluateScores(S, T, S.order)

\* the defaultdict keys the scorer's reads create
TouchedByScorer(T, dets) ==
    [T EXCEPT !.velocities = Touch(@, IdSet(dets)),
              !.bbox_growth_rates = Touch(@, IdSet(dets)),
              !.accelerations = Touch(@, IdSet(dets))]

----------------------------------------------------------------------------
(* Disappearance monitor *)

\* the loop over current_detections: min of the distances up to and including
\* the first one below 100 (the loop breaks there)
RECURSIVE ClosestDistance(_, _, _)
ClosestDistance(last_position, dets, closest) ==
    IF dets = <<>> THEN closest
    ELSE LET distance == calculate_distance(last_position, Head(dets).center)
         IN  IF distance < 100 THEN Min2(closest, distance)
             ELSE ClosestDistance(last_position, Tail(dets), Min2(closest, distance))

\* disappearance_score of one vanished vehicle (printed in DEBUG_MODE only)
DisappearanceScore(T, vehicle_id, dets) ==
    LET vs == Get(T.velocities, vehicle_id, <<>>)
        last_velocity == IF vs # <<>> THEN Last(vs) ELSE 0
        velocity_change == IF Len(vs) >= 2 THEN vs[Len(vs)] - vs[Len(vs) - 1] ELSE 0
        last_position == Get(T.vehicle_last_positions, vehicle_id, <<0, 0>>)
        closest_distance == ClosestDistance(last_position, dets, Infinity)
    IN  (IF closest_distance < 20 THEN 100 ELSE IF closest_distance < 40 THEN 60 ELSE 0)
        + (IF last_velocity > 80 THEN 80 ELSE IF last_velocity > 60 THEN 60
           ELSE IF last_velocity > 40 THEN 40 ELSE 0)
        + (IF velocity_change < -50 THEN 80 ELSE IF velocity_change < -40 THEN 60 ELSE 0)

\* the vanished ids whose score is computed: frames_since_seen <= 2
RecentlyDisappeared(T, dets, fc) ==
    {v \in T.active_vehicles \ IdSet(dets) : fc - Get(T.last_seen_frame, v, fc) <= 2}

\* disappearance_score of every vanished id the monitor scores
DisappearanceScores(T, dets, fc) ==
    [v \in RecentlyDisappeared(T, dets, fc) |-> DisappearanceScore(T, v, dets)]

\* a set of ids as a sequence
RECURSIVE SeqOf(_)
SeqOf(S) ==
    IF S = {} THEN <<>>
    ELSE LET x == CHOOSE y \in S : TRUE IN <<x>> \o SeqOf(S \ {x})

\* as detect_vehicle_disappearances, with the disabled path switched on: a
\* vanished id whose score reaches the crash threshold is reported as a crash
detect_vehicle_disappearancesEnabled(T, dets, fc) ==
    LET scores == DisappearanceScores(T, dets, fc)
        hit == SeqOf({v \in DOMAIN scores : scores[v] >= CrashThreshold})
    IN  [i \in DOMAIN hit |->
            [type |-> "crash", vehicle_id |-> hit[i],
             position |-> Get(T.vehicle_last_positions, hit[i], <<0, 0>>),
             severity |-> scores[hit[i]], evidence |-> <<"Disappearance">>]]

\* crashes_from_disappearance is created empty and returned; no statement of the
\* function appends to it, whatever the scores are
detect_vehicle_disappearances(T, dets, fc) ==
    LET scores == DisappearanceScores(T, dets, fc)
    IN  <<>>

\* the defaultdict keys the monitor's reads create
TouchedByMonitor(T, dets, fc) ==
    LET R == RecentlyDisappeared(T, dets, fc)
    IN  [T EXCEPT !.velocities = Touch(@, R),
                  !.bbox_growth_rates = Touch(@, R),
                  !.bbox_history = Touch(@, R)]

----------------------------------------------------------------------------
(* Event deduplicator: the "if all_crashes:" block of process_video.
   D is [crash_detected_frame, total_unique_crashes, crash_frames]. *)

\* as Deduplicate, but a new incident keeps the old crash_detected_frame
DeduplicateStaleAnchor(D, fc) ==
    IF D.crash_detected_frame = None
    THEN [crash_detected_frame |-> Some(fc),
          total_unique_crashes |-> 1,
          crash_frames |-> Append(D.crash_frames, fc)]
    ELSE IF fc - D.crash_detected_frame[1] > CooldownFrames
    THEN [crash_detected_frame |-> D.crash_detected_frame,
          total_unique_crashes |-> D.total_unique_crashes + 1,
          crash_frames |-> Append(D.crash_frames, fc)]
    ELSE [D EXCEPT !.crash_frames =
                       IF Len(@) < MaxCrashFrames THEN Append(@, fc) ELSE @]

\* as Deduplicate, but a new incident increments total_unique_crashes twice
\* (the crash_count += 1 beside it written on the wrong counter)
DeduplicateDoubleCount(D, fc) ==
    IF D.crash_detected_frame = None
    THEN [crash_detected_frame |-> Some(fc),
          total_unique_crashes |-> 1,
          crash_frames |-> Append(D.crash_frames, fc)]
    ELSE IF fc - D.crash_detected_frame[1] > CooldownFrames
    THEN [crash_detected_frame |-> Some(fc),
          total_unique_crashes |-> D.total_unique_crashes + 2,
          crash_frames |-> Append(D.crash_frames, fc)]
    ELSE [D EXCEPT !.crash_frames =
                       IF Len(@) < MaxCrashFrames THEN Append(@, fc) ELSE @]

\* as Deduplicate, but the frame that opens the first incident is not recorded
\* in crash_frames
DeduplicateFirstFrameUnrecorded(D, fc) ==
    IF D.crash_detected_frame = None
    THEN [crash_detected_frame |-> Some(fc),
          total_unique_crashes |-> 1,
          crash_frames |-> D.crash_frames]
    ELSE IF fc - D.crash_detected_frame[1] > CooldownFrames
    THEN [crash_detected_frame |-> Some(fc),
          total_unique_crashes |-> D.total_unique_crashes + 1,
          crash_frames |-> Append(D.crash_frames, fc)]
    ELSE [D EXCEPT !.crash_frames =
                       IF Len(@) < MaxCrashFrames THEN Append(@, fc) ELSE @]

\* as Deduplicate, but evidence of a continuing incident moves the anchor of
\* the cooldown to its frame
DeduplicateAnchorsOnLatest(D, fc) ==
    IF D.crash_detected_frame = None
    THEN [crash_detected_frame |-> Some(fc),
          total_unique_crashes |-> 1,
          crash_frames |-> Append(D.crash_frames, fc)]
    ELSE IF fc - D.crash_detected_frame[1] > CooldownFrames
    THEN [crash_detected_frame |-> Some(fc),
          total_unique_crashes |-> D.total_unique_crashes + 1,
          crash_frames |-> Append(D.crash_frames, fc)]
    ELSE [D EXCEPT !.crash_detected_frame = Some(fc),
                   !.crash_frames =
                       IF Len(@) < MaxCrashFrames THEN Append(@, fc) ELSE @]

\* as Deduplicate, but the cap test on crash_frames is <= instead of <
DeduplicateCapOffByOne(D, fc) ==
    IF D.crash_detected_frame = None
    THEN [crash_detected_frame |-> Some(fc),
          total_unique_crashes |-> 1,
          crash_frames |-> Append(D.crash_frames, fc)]
    ELSE IF fc - D.crash_detected_frame[1] > CooldownFrames
    THEN [crash_detected_frame |-> Some(fc),
          total_unique_crashes |-> D.total_unique_crashes + 1,
          crash_frames |-> Append(D.crash_frames, fc)]
    ELSE [D EXCEPT !.crash_frames =
                       IF Len(@) <= MaxCrashFrames THEN Append(@, fc) ELSE @]

Deduplicate(D, fc) ==
    IF D.crash_detected_frame = None
    THEN [crash_detected_frame |-> Some(fc),
          total_unique_crashes |-> 1,
          crash_frames |-> Append(D.crash_frames, fc)]
    ELSE IF fc - D.crash_detected_frame[1] > CooldownFrames
    THEN [crash_detected_frame |-> Some(fc),
          total_unique_crashes |-> D.total_unique_crashes + 1,
          crash_frames |-> Append(D.crash_frames, fc)]
    ELSE [D EXCEPT !.crash_frames =
                       IF Len(@) < MaxCrashFrames THEN Append(@, fc) ELSE @]

\* the deduplicator fields of the module-level state
DedupState ==
    [crash_detected_frame |-> crash_detected_frame,
     total_unique_crashes |-> total_unique_crashes,
     crash_frames |-> crash_frames]

\* as DedupStep, but a frame without evidence closes an incident whose cooldown
\* has run out
DedupStepClosesOnTimeout(D, all, fc) ==
    IF all # <<>>
    THEN Deduplicate(D, fc)
    ELSE IF D.crash_detected_frame # None
            /\ fc - D.crash_detected_frame[1] > CooldownFrames
    THEN [D EXCEPT !.crash_detected_frame = None]
    ELSE D

\* the frame takes one of the two branches that open an incident (and add 1
\* to the local crash_count)
OpensIncident(D, all, fc) ==
    /\ all # <<>>
    /\ \/ D.crash_detected_frame = None
       \/ fc - D.crash_detected_frame[1] > CooldownFrames

\* "if all_crashes:" and its block: a frame without evidence skips it
DedupStep(D, all, fc) ==
    IF all # <<>> THEN Deduplicate(D, fc) ELSE D

----------------------------------------------------------------------------
(* Downstream consumers.  env is how the world outside answers this session:
   whether CEREBRAS_API_KEY is set, what the POST to the Cerebras API does,
   what the assessment it returns carries, how the analysis subprocess ends. *)

\* Python values a parsed JSON document can hold under "frames_to_analyze"
PyList(items) == [type |-> "list", value |-> items]

PyNumber(n) == [type |-> "number", value |-> n]

\* bool(v)
Truthy(v) == IF v.type = "list" THEN v.value # <<>> ELSE v.value # 0

DownstreamEnvs ==
    [api_key : BOOLEAN,
     response : {"raises", "status_500", "not_json", "wrong_shape", "assessment"},
     frames_to_analyze : {PyList(<<>>), PyList(<<1, 2>>), PyNumber(50)},
     context_for_gemini : {"", "rear-end collision"},
     subprocess : {"exit_0", "exit_1", "raises"}]

NoKeyEnv ==
    [api_key |-> FALSE, response |-> "raises", frames_to_analyze |-> PyList(<<>>),
     context_for_gemini |-> "", subprocess |-> "raises"]

\* the {"success": False, "error": ...} returns (the keys read on success only
\* are given values here)
AssessmentFailed ==
    [success |-> FALSE, gemini_context |-> "", gemini_frames |-> PyList(<<>>)]

\* the fields of the returned dict that process_video reads.  requests.post
\* raising, a status other than 200 and a JSON document on which .get fails
\* ("wrong_shape") end in a failure return; content that is not JSON ends in the
\* fallback return
generate_emergency_assessment_cerebras(crash_frames_list, env) ==
    IF ~env.api_key THEN AssessmentFailed
    ELSE IF env.response \in {"raises", "status_500", "wrong_shape"}
    THEN AssessmentFailed
    ELSE IF env.response = "not_json"
    THEN [success |-> TRUE, gemini_context |-> "",
          gemini_frames |-> PyList(SubSeq(crash_frames_list, 1,
                                          Min2(2, Len(crash_frames_list))))]
    ELSE [success |-> TRUE, gemini_context |-> env.context_for_gemini,
          gemini_frames |-> env.frames_to_analyze]

----------------------------------------------------------------------------
(* Session state *)

\* the values the module-level assignments give the globals at import
InitGlobals ==
    [scene_descriptions |-> <<>>, vehicle_classifications |-> <<>>,
     traffic_elements |-> <<>>, weather_conditions |-> <<>>,
     video_metadata |-> EmptyDict,
     crash_detected_frame |-> None, total_unique_crashes |-> 0, crash_frames |-> <<>>,
     track_history |-> EmptyDict, previous_positions |-> EmptyDict,
     velocities |-> EmptyDict, accelerations |-> EmptyDict,
     crash_alerts |-> {}, crash_confirmations |-> EmptyDict,
     bbox_history |-> EmptyDict, bbox_growth_rates |-> EmptyDict,
     active_vehicles |-> {}, last_seen_frame |-> EmptyDict,
     vehicle_last_positions |-> EmptyDict,
     previous_frame |-> None, blur_history |-> <<>>, motion_history |-> <<>>,
     brightness_history |-> <<>>]

Globals ==
    [scene_descriptions |-> scene_descriptions,
     vehicle_classifications |-> vehicle_classifications,
     traffic_elements |-> traffic_elements, weather_conditions |-> weather_conditions,
     video_metadata |-> video_metadata,
     crash_detected_frame |-> crash_detected_frame,
     total_unique_crashes |-> total_unique_crashes, crash_frames |-> crash_frames,
     track_history |-> track_history, previous_positions |-> previous_positions,
     velocities |-> velocities, accelerations |-> accelerations,
     crash_alerts |-> crash_alerts, crash_confirmations |-> crash_confirmations,
     bbox_history |-> bbox_history, bbox_growth_rates |-> bbox_growth_rates,
     active_vehicles |-> active_vehicles, last_seen_frame |-> last_seen_frame,
     vehicle_last_positions |-> vehicle_last_positions,
     previous_frame |-> previous_frame, blur_history |-> blur_history,
     motion_history |-> motion_history, brightness_history |-> brightness_history]

\* as clear_tracking_data, with the three rebinding assignments lost (as they
\* are without the global statement): only the .clear() calls take effect
clear_tracking_dataNoRebind(G) ==
    [G EXCEPT
        !.track_history = EmptyDict, !.previous_positions = EmptyDict,
        !.velocities = EmptyDict, !.accelerations = EmptyDict,
        !.crash_alerts = {}, !.crash_confirmations = EmptyDict,
        !.bbox_history = EmptyDict, !.bbox_growth_rates = EmptyDict,
        !.active_vehicles = {}, !.last_seen_frame = EmptyDict,
        !.vehicle_last_positions = EmptyDict,
        !.blur_history = <<>>, !.motion_history = <<>>,
        !.brightness_history = <<>>,
        !.scene_descriptions = <<>>, !.vehicle_classifications = <<>>,
        !.traffic_elements = <<>>, !.weather_conditions = <<>>,
        !.video_metadata = EmptyDict,
        !.crash_frames = <<>>]

\* clear_tracking_data without its last line, crash_frames.clear()
clear_tracking_dataKeepsCrashFrames(G) ==
    [G EXCEPT
        !.track_history = EmptyDict, !.previous_positions = EmptyDict,
        !.velocities = EmptyDict, !.accelerations = EmptyDict,
        !.crash_alerts = {}, !.crash_confirmations = EmptyDict,
        !.bbox_history = EmptyDict, !.bbox_growth_rates = EmptyDict,
        !.active_vehicles = {}, !.last_seen_frame = EmptyDict,
        !.vehicle_last_positions = EmptyDict,
        !.previous_frame = None, !.blur_history = <<>>, !.motion_history = <<>>,
        !.brightness_history = <<>>,
        !.scene_descriptions = <<>>, !.vehicle_classifications = <<>>,
        !.traffic_elements = <<>>, !.weather_conditions = <<>>,
        !.video_metadata = EmptyDict,
        !.crash_detected_frame = None, !.total_unique_crashes = 0]

\* the globals after clear_tracking_data() ran on the globals G
clear_tracking_data(G) ==
    [G EXCEPT
        !.track_history = EmptyDict, !.previous_positions = EmptyDict,
        !.velocities = EmptyDict, !.accelerations = EmptyDict,
        !.crash_alerts = {}, !.crash_confirmations = EmptyDict,
        !.bbox_history = EmptyDict, !.bbox_growth_rates = EmptyDict,
        !.active_vehicles = {}, !.last_seen_frame = EmptyDict,
        !.vehicle_last_positions = EmptyDict,
        !.previous_frame = None, !.blur_history = <<>>, !.motion_history = <<>>,
        !.brightness_history = <<>>,
        !.scene_descriptions = <<>>, !.vehicle_classifications = <<>>,
        !.traffic_elements = <<>>, !.weather_conditions = <<>>,
        !.video_metadata = EmptyDict,
        !.crash_detected_frame = None, !.total_unique_crashes = 0,
        !.crash_frames = <<>>]

\* the artifacts dict before any frame was analysed
NoArtifacts ==
    [camera_shake |-> 0, blur_spike |-> 0, brightness_change |-> 0,
     impact_detected |-> FALSE]

NoFlags == [shake |-> FALSE, blur |-> FALSE, brightness |-> FALSE]

SetGlobals(G) ==
    /\ scene_descriptions' = G.scene_descriptions
    /\ vehicle_classifications' = G.vehicle_classifications
    /\ traffic_elements' = G.traffic_elements
    /\ weather_conditions' = G.weather_conditions
    /\ video_metadata' = G.video_metadata
    /\ crash_detected_frame' = G.crash_detected_frame
    /\ total_unique_crashes' = G.total_unique_crashes
    /\ crash_frames' = G.crash_frames
    /\ track_history' = G.track_history
    /\ previous_positions' = G.previous_positions
    /\ velocities' = G.velocities
    /\ accelerations' = G.accelerations
    /\ crash_alerts' = G.crash_alerts
    /\ crash_confirmations' = G.crash_confirmations
    /\ bbox_history' = G.bbox_history
    /\ bbox_growth_rates' = G.bbox_growth_rates
    /\ active_vehicles' = G.active_vehicles
    /\ last_seen_frame' = G.last_seen_frame
    /\ vehicle_last_positions' = G.vehicle_last_positions
    /\ previous_frame' = G.previous_frame
    /\ blur_history' = G.blur_history
    /\ motion_history' = G.motion_history
    /\ brightness_history' = G.brightness_history

\* the locals (and history variables) of a thread that is not in process_video
IdleLocals ==
    [pc |-> "idle", frame_count |-> 0, crash_count |-> 0, detections |-> <<>>,
     visual_artifacts |-> NoArtifacts, crashes |-> <<>>, all_crashes |-> <<>>,
     impact_flags |-> NoFlags, last_evidence_frame |-> None,
     first_evidence_frame |-> None, crash_scores |-> EmptyDict,
     crash_evidence |-> EmptyDict, disappearance_scores |-> EmptyDict,
     cleared_from |-> None, downstream_log |-> <<>>]

\* the locals of the running thread
Locals ==
    [pc |-> pc, frame_count |-> frame_count, crash_count |-> crash_count,
     detections |-> detections, visual_artifacts |-> visual_artifacts,
     crashes |-> crashes, all_crashes |-> all_crashes,
     impact_flags |-> impact_flags, last_evidence_frame |-> last_evidence_frame,
     first_evidence_frame |-> first_evidence_frame, crash_scores |-> crash_scores,
     crash_evidence |-> crash_evidence, disappearance_scores |-> disappearance_scores,
     cleared_from |-> cleared_from, downstream_log |-> downstream_log]

SetLocals(L) ==
    /\ pc' = L.pc
    /\ frame_count' = L.frame_count
    /\ crash_count' = L.crash_count
    /\ detections' = L.detections
    /\ visual_artifacts' = L.visual_artifacts
    /\ crashes' = L.crashes
    /\ all_crashes' = L.all_crashes
    /\ impact_flags' = L.impact_flags
    /\ last_evidence_frame' = L.last_evidence_frame
    /\ first_evidence_frame' = L.first_evidence_frame
    /\ crash_scores' = L.crash_scores
    /\ crash_evidence' = L.crash_evidence
    /\ disappearance_scores' = L.disappearance_scores
    /\ cleared_from' = L.cleared_from
    /\ downstream_log' = L.downstream_log

\* no stream is being generated
NoGenerator ==
    [pc |-> "none", crash_mode |-> FALSE, prev_gray |-> None, prev_speed |-> 0,
     cooldown |-> 0, crash |-> FALSE, yielded |-> FALSE, frames |-> 0, flagged |-> <<>>]

Init ==
    /\ pc = "idle"
    /\ frame_count = 0
    /\ crash_count = 0
    /\ detections = <<>>
    /\ visual_artifacts = NoArtifacts
    /\ crashes = <<>>
    /\ all_crashes = <<>>
    /\ scene_descriptions = InitGlobals.scene_descriptions
    /\ vehicle_classifications = InitGlobals.vehicle_classifications
    /\ traffic_elements = InitGlobals.traffic_elements
    /\ weather_conditions = InitGlobals.weather_conditions
    /\ video_metadata = InitGlobals.video_metadata
    /\ crash_detected_frame = InitGlobals.crash_detected_frame
    /\ total_unique_crashes = InitGlobals.total_unique_crashes
    /\ crash_frames = InitGlobals.crash_frames
    /\ track_history = InitGlobals.track_history
    /\ previous_positions = InitGlobals.previous_positions
    /\ velocities = InitGlobals.velocities
    /\ accelerations = InitGlobals.accelerations
    /\ crash_alerts = InitGlobals.crash_alerts
    /\ crash_confirmations = InitGlobals.crash_confirmations
    /\ bbox_history = InitGlobals.bbox_history
    /\ bbox_growth_rates = InitGlobals.bbox_growth_rates
    /\ active_vehicles = InitGlobals.active_vehicles
    /\ last_seen_frame = InitGlobals.last_seen_frame
    /\ vehicle_last_positions = InitGlobals.vehicle_last_positions
    /\ previous_frame = InitGlobals.previous_frame
    /\ blur_history = InitGlobals.blur_history
    /\ motion_history = InitGlobals.motion_history
    /\ brightness_history = InitGlobals.brightness_history
    /\ impact_flags = NoFlags
    /\ last_evidence_frame = None
    /\ first_evidence_frame = None
    /\ crash_scores = EmptyDict
    /\ crash_evidence = EmptyDict
    /\ disappearance_scores = EmptyDict
    /\ cleared_from = None
    /\ downstream_log = <<>>
    /\ parked = IdleLocals
    /\ frame_generator = NoGenerator

----------------------------------------------------------------------------
(* Operations *)

\* collect_frame_data: every SampleEvery-th frame is sampled
Sampled(list, fc, cond) ==
    IF fc % SampleEvery = 0 /\ cond THEN Append(list, fc) ELSE list

\* draw_crash_alerts on the keys of crash_alerts: this frame's crashes are
\* (re)armed; expired tells whether the wall clock has passed the expiry of the rest
AlertsAfter(alerts, found, expired) ==
    LET armed == {found[i].vehicle_id : i \in DOMAIN found}
    IN  IF expired THEN armed ELSE alerts \cup armed

\* process_video up to the frame loop: clear_tracking_data(), then the capture
\* is opened; the function returns at once when it cannot be
StartSession(opened) ==
    /\ pc = "idle"
    /\ SetGlobals(clear_tracking_data(Globals))
    /\ pc' = IF opened THEN "loop" ELSE "idle"
    /\ frame_count' = 0
    /\ crash_count' = 0
    /\ detections' = <<>>
    /\ visual_artifacts' = NoArtifacts
    /\ crashes' = <<>>
    /\ all_crashes' = <<>>
    /\ impact_flags' = NoFlags
    /\ last_evidence_frame' = None
    /\ first_evidence_frame' = None
    /\ crash_scores' = EmptyDict
    /\ crash_evidence' = EmptyDict
    /\ disappearance_scores' = EmptyDict
    /\ cleared_from' = Some(Globals)
    /\ downstream_log' = <<>>
    /\ UNCHANGED <<parked, frame_generator>>

\* one iteration of the frame loop of process_video
ProcessFrame(dets, frame, flow, expired) ==
    /\ pc = "loop"
    /\ \E fc \in {frame_count + 1} :
       \E va \in {analyze_visual_artifacts(frame, flow)} :
       \E T1 \in {update_tracking(Tracking, dets, fc)} :
       \E disappearance_crashes \in {detect_vehicle_disappearances(T1, dets, fc)} :
       \E found \in {detect_comprehensive_crashes(TouchedByMonitor(T1, dets, fc),
                                                  dets, FrameHeight, va)} :
       \E T3 \in {TouchedByScorer(TouchedByMonitor(T1, dets, fc), dets)} :
       \E S \in {FinalScores(TouchedByMonitor(T1, dets, fc), dets, FrameHeight, va)} :
       \E all \in {found \o disappearance_crashes} :
       \E D1 \in {DedupStep(DedupState, all, fc)} :
           /\ frame_count' = fc
           /\ detections' = dets
           /\ visual_artifacts' = va
           /\ impact_flags' = [shake |-> ShakeFlag(flow), blur |-> BlurFlag(frame),
                               brightness |-> BrightnessFlag(frame)]
           /\ motion_history' = MotionAfter(flow)
           /\ blur_history' = BlurAfter(frame)
           /\ brightness_history' = BrightnessAfter(frame)
           /\ previous_frame' = Some(frame)
           /\ track_history' = T3.track_history
           /\ previous_positions' = T3.previous_positions
           /\ velocities' = T3.velocities
           /\ accelerations' = T3.accelerations
           /\ bbox_history' = T3.bbox_history
           /\ bbox_growth_rates' = T3.bbox_growth_rates
           /\ active_vehicles' = T3.active_vehicles
           /\ last_seen_frame' = T3.last_seen_frame
           /\ vehicle_last_positions' = T3.vehicle_last_positions
           /\ scene_descriptions' = Sampled(scene_descriptions, fc, TRUE)
           /\ vehicle_classifications' = Sampled(vehicle_classifications, fc, dets # <<>>)
           /\ traffic_elements' = Sampled(traffic_elements, fc, TRUE)
           /\ weather_conditions' = Sampled(weather_conditions, fc, TRUE)
           /\ crashes' = found
           /\ crash_scores' = S.scores
           /\ crash_evidence' = S.evidence
           /\ crash_count' = IF OpensIncident(DedupState, all, fc)
                             THEN crash_count + 1 ELSE crash_count
           /\ disappearance_scores' = DisappearanceScores(T1, dets, fc)
           /\ all_crashes' = all
           /\ crash_detected_frame' = D1.crash_detected_frame
           /\ total_unique_crashes' = D1.total_unique_crashes
           /\ crash_frames' = D1.crash_frames
           /\ crash_alerts' = AlertsAfter(crash_alerts, all, expired)
           /\ last_evidence_frame' = IF all # <<>> THEN Some(fc) ELSE last_evidence_frame
           /\ first_evidence_frame' = IF all # <<>> /\ first_evidence_frame = None
                                      THEN Some(fc) ELSE first_evidence_frame
    /\ pc' = pc
    /\ cleared_from' = None
    /\ UNCHANGED <<video_metadata, crash_confirmations, downstream_log, parked,
                   frame_generator>>

\* the frame loop ends (cap.read() fails or 'q' is pressed), process_video
\* prints its summary and, under ENABLE_DETAILED_ANALYSIS, consults the
\* downstream services as env lets them answer; then it returns, or is left by
\* the TypeError of len() if gemini_frames is truthy and has no length.  Its
\* locals are gone, the globals stay as the loop left them
FinishSession(env) ==
    /\ pc = "loop"
    /\ \E called \in {total_unique_crashes > 0 /\ env.api_key} :
       \E assessment \in {generate_emergency_assessment_cerebras(crash_frames, env)} :
       \E inspected \in {called /\ assessment.success} :
       \E len_raises \in {inspected /\ Truthy(assessment.gemini_frames)
                                    /\ assessment.gemini_frames.type # "list"} :
       \E analysed \in {inspected /\ assessment.gemini_frames.type = "list"
                                   /\ assessment.gemini_frames.value # <<>>
                                   /\ assessment.gemini_context # ""} :
           /\ pc' = IF len_raises THEN "raised" ELSE "idle"
           /\ downstream_log' =
                  (IF ~called
                   THEN IF total_unique_crashes > 0
                        THEN <<"no Cerebras API key available">> ELSE <<>>
                   ELSE IF assessment.success
                   THEN <<"CEREBRAS EMERGENCY ASSESSMENT">>
                   ELSE <<"Emergency assessment failed">>)
                  \o (IF ~analysed THEN <<>>
                      ELSE IF env.subprocess = "exit_0"
                      THEN <<"GEMINI DETAILED ANALYSIS">>
                      ELSE IF env.subprocess = "exit_1"
                      THEN <<"Gemini analysis failed">>
                      ELSE <<"Error running Gemini analysis">>)
    /\ frame_count' = 0
    /\ crash_count' = 0
    /\ detections' = <<>>
    /\ visual_artifacts' = NoArtifacts
    /\ crashes' = <<>>
    /\ all_crashes' = <<>>
    /\ impact_flags' = NoFlags
    /\ last_evidence_frame' = None
    /\ first_evidence_frame' = None
    /\ crash_scores' = EmptyDict
    /\ crash_evidence' = EmptyDict
    /\ disappearance_scores' = EmptyDict
    /\ cleared_from' = None
    /\ UNCHANGED <<scene_descriptions, vehicle_classifications, traffic_elements,
                   weather_conditions, video_metadata,
                   crash_detected_frame, total_unique_crashes, crash_frames,
                   track_history, previous_positions, velocities, accelerations,
                   crash_alerts, crash_confirmations, bbox_history, bbox_growth_rates,
                   active_vehicles, last_seen_frame, vehicle_last_positions,
                   previous_frame, blur_history, motion_history, brightness_history,
                   parked, frame_generator>>

\* the end of a session on a machine without CEREBRAS_API_KEY: no downstream
\* service is consulted
EndLoop == FinishSession(NoKeyEnv)

\* the scheduler gives the processor to the other thread: the locals are
\* exchanged, the module-level state is the same for both
SwitchThread ==
    /\ SetLocals(parked)
    /\ parked' = Locals
    /\ UNCHANGED <<scene_descriptions, vehicle_classifications, traffic_elements,
                   weather_conditions, video_metadata,
                   crash_detected_frame, total_unique_crashes, crash_frames,
                   track_history, previous_positions, velocities, accelerations,
                   crash_alerts, crash_confirmations, bbox_history, bbox_growth_rates,
                   active_vehicles, last_seen_frame, vehicle_last_positions,
                   previous_frame, blur_history, motion_history, brightness_history,
                   frame_generator>>

----------------------------------------------------------------------------
(* SpecDedup: sessions of frames without detections, whose camera shake varies;
   crash evidence is the vehicle-less crash of the scorer. *)

MaxFramesD == 16

\* optical-flow magnitudes: a still camera, a Major-tier shake
DedupFlows == {0, 250}

\* a frame of steady sharpness and brightness
SteadyFrame == [lap |-> 900, gray |-> 100]

StartD == \E opened \in BOOLEAN : StartSession(opened)

FrameD ==
    /\ frame_count < MaxFramesD
    /\ \E flow \in DedupFlows, expired \in BOOLEAN :
           ProcessFrame(<<>>, SteadyFrame, flow, expired)

NextDedup == StartD \/ FrameD \/ EndLoop

SpecDedup == Init /\ [][NextDedup]_vars

----------------------------------------------------------------------------
(* Properties of the event deduplicator, checked under SpecDedup *)

\* the step is an iteration of the frame loop whose all_crashes is non-empty
EvidenceStep ==
    pc = "loop" /\ frame_count' = frame_count + 1 /\ all_crashes' # <<>>

\* C1: two evidence frames at most 10 frames apart are merged into one incident:
\* total_unique_crashes after the later one is what it was after the earlier one
\* (stated on each evidence frame and the evidence frame before it)
C1_EvidenceWithinCooldownMerges ==
    [][(EvidenceStep
        /\ last_evidence_frame # None
        /\ frame_count' - last_evidence_frame[1] <= CooldownFrames)
       => total_unique_crashes' = total_unique_crashes]_vars

C3_NewIncidentResetsCrashFrames ==
    (/\ pc = "loop" /\ all_crashes # <<>>
     /\ total_unique_crashes >= 2
     /\ crash_detected_frame = Some(frame_count))
    => crash_frames = <<frame_count>>

\* C4: crash_frames never holds more than 4 entries
C4_CrashFramesAtMostFour == Len(crash_frames) <= MaxCrashFrames

\* C5: over a frame total_unique_crashes stays or grows by 1; it only ever
\* shrinks in the clear_tracking_data of a starting session, and then to 0
C5_CounterMonotonic ==
    [][/\ (pc = "loop" /\ pc' = "loop")
              => total_unique_crashes' \in {total_unique_crashes, total_unique_crashes + 1}
       /\ total_unique_crashes' >= total_unique_crashes
              \/ (pc = "idle" /\ frame_count' = 0 /\ total_unique_crashes' = 0)]_vars

\* the clear of a starting session resets a counter that had reached 2
C5_Witness ==
    /\ pc = "loop" /\ frame_count = 0 /\ total_unique_crashes = 0
    /\ cleared_from # None
    /\ cleared_from[1].total_unique_crashes >= 2

\* the case of C7: frame 10 of a session without detections carries the only
\* shake (250) of the session, and no frame before it carried evidence
C7_Case ==
    /\ pc = "loop" /\ frame_count = 10 /\ detections = <<>>
    /\ motion_history = <<0, 0, 0, 0, 250>>
    /\ first_evidence_frame \in {None, Some(10)}

\* C7: in that case the scorer emits exactly one vehicle-less crash of severity
\* 250 and the deduplicator opens exactly one incident, at frame 10
C7_SingleShakeOpensIncident ==
    C7_Case =>
        /\ crashes = << [type |-> "crash", vehicle_id |-> "unknown",
                         position |-> <<640, 360>>, severity |-> 250,
                         evidence |-> <<"Major shake">>] >>
        /\ all_crashes = crashes
        /\ total_unique_crashes = 1
        /\ crash_detected_frame = Some(10)
        /\ crash_frames = <<10>>

C7_Witness == C7_Case /\ visual_artifacts.camera_shake = 250

\* C18: from Idle (no incident since the last clear) the first frame with
\* evidence opens incident 1: the counter is 1, first_frame is that frame and
\* crash_frames is exactly that frame
C18_FirstEvidenceOpensIncidentOne ==
    [][(EvidenceStep /\ crash_detected_frame = None)
       => /\ total_unique_crashes = 0 /\ crash_frames = <<>>
          /\ total_unique_crashes' = 1
          /\ crash_detected_frame' = Some(frame_count')
          /\ crash_frames' = <<frame_count'>>]_vars

\* incident 1 was just opened, after evidence-free frames
C18_Witness ==
    /\ pc = "loop" /\ frame_count >= 2 /\ all_crashes # <<>>
    /\ first_evidence_frame = Some(frame_count)
    /\ total_unique_crashes = 1
    /\ crash_detected_frame = Some(frame_count)
    /\ crash_frames = <<frame_count>>

\* C19: evidence at most 10 frames after first_frame of the open incident
\* continues it: counter and first_frame keep their values, and the frame is
\* appended to crash_frames iff crash_frames held fewer than 4 entries
C19_EvidenceWithinWindowContinues ==
    [][(EvidenceStep
        /\ crash_detected_frame # None
        /\ frame_count' - crash_detected_frame[1] <= CooldownFrames)
       => /\ UNCHANGED <<total_unique_crashes, crash_detected_frame>>
          /\ crash_frames' = IF Len(crash_frames) < 4
                             THEN crash_frames \o <<frame_count'>>
                             ELSE crash_frames]_vars

\* evidence inside the window found crash_frames full and left it alone
C19_Witness ==
    /\ pc = "loop" /\ all_crashes # <<>>
    /\ crash_detected_frame # None
    /\ frame_count > crash_detected_frame[1]
    /\ frame_count - crash_detected_frame[1] <= CooldownFrames
    /\ Len(crash_frames) = 4
    /\ crash_frames[4] < frame_count
    /\ total_unique_crashes = 1

\* C20: a frame without evidence leaves crash_detected_frame,
\* total_unique_crashes and crash_frames as they were, however long ago the
\* incident was opened
C20_NoEvidenceNoTransition ==
    [][(pc = "loop" /\ frame_count' = frame_count + 1 /\ all_crashes' = <<>>)
       => DedupState' = DedupState]_vars

\* an incident still open more than 10 evidence-free frames after its only
\* evidence
C20_Witness ==
    /\ pc = "loop" /\ all_crashes = <<>>
    /\ crash_detected_frame # None
    /\ last_evidence_frame = crash_detected_frame
    /\ frame_count - crash_detected_frame[1] > CooldownFrames
    /\ total_unique_crashes = 1 /\ crash_frames = <<crash_detected_frame[1]>>

----------------------------------------------------------------------------
(* SpecVisual: sessions of frames without detections whose sharpness,
   brightness and (small) camera motion vary. *)

MaxFramesV == 4

\* Laplacian variances (blur scores 0 and 100) and mean grey levels
VisualFrames == [lap : {1000, 900}, gray : {100, 140}]

\* optical-flow magnitudes below every shake tier
VisualFlows == {0, 20}

StartV == \E opened \in BOOLEAN : StartSession(opened)

FrameV ==
    /\ frame_count < MaxFramesV
    /\ \E frame \in VisualFrames, flow \in VisualFlows :
           ProcessFrame(<<>>, frame, flow, FALSE)

NextVisual == StartV \/ FrameV \/ EndLoop

SpecVisual == Init /\ [][NextVisual]_vars

\* C9: an impact test only fires on a history of at least 3 samples, so the
\* first two frames after a clear never report impact_detected
C9_NoImpactBeforeThreeSamples ==
    /\ impact_flags.shake => Len(motion_history) >= 3
    /\ impact_flags.blur => Len(blur_history) >= 3
    /\ impact_flags.brightness => Len(brightness_history) >= 3
    /\ (pc = "loop" /\ frame_count \in {1, 2}) => ~visual_artifacts.impact_detected

\* frame 3: blur and brightness have 3 samples and fire, the shake history has 2
C9_Witness ==
    /\ pc = "loop" /\ frame_count = 3
    /\ impact_flags.blur /\ impact_flags.brightness /\ ~impact_flags.shake
    /\ Len(motion_history) = 2 /\ motion_history[2] > motion_history[1] + CAMERA_SHAKE_THRESHOLD
    /\ visual_artifacts.impact_detected

----------------------------------------------------------------------------
(* SpecScore: sessions in which vehicle v2 stands still and vehicle v1 moves,
   grows, or vanishes, under a still or moderately shaking camera. *)

MaxFramesS == 4

\* pixel positions on a line of slope 4/3: all their distances are integers
Pos(k) == <<600 + 3 * k, 500 + 4 * k>>

\* a detection as detect_vehicles builds it from a centre and a box size
Detection(id, center, width, height) ==
    [id |-> id, center |-> center,
     bbox |-> <<center[1] - width \div 2, center[2] - height \div 2, width, height>>]

\* v1: far and small, near and small, near and grown, near and filling the bottom
V1Far == Detection("v1", Pos(20), 10, 10)

V1Near == Detection("v1", Pos(0), 10, 10)

V1Grown == Detection("v1", Pos(0), 30, 30)

V1Huge == Detection("v1", Pos(0), 200, 300)

V2Still == Detection("v2", Pos(4), 10, 10)

ScoreDetections ==
    {<<V2Still>>, <<V1Far, V2Still>>, <<V1Near, V2Still>>,
     <<V1Grown, V2Still>>, <<V1Huge, V2Still>>}

\* optical-flow magnitudes: a still camera, a Moderate-tier shake
ScoreFlows == {0, 60}

StartS == \E opened \in BOOLEAN : StartSession(opened)

FrameS ==
    /\ frame_count < MaxFramesS
    /\ \E dets \in ScoreDetections, flow \in ScoreFlows :
           ProcessFrame(dets, SteadyFrame, flow, FALSE)

NextScore == StartS \/ FrameS \/ EndLoop

SpecScore == Init /\ [][NextScore]_vars

\* the ids of the per-vehicle crashes of this frame
EmittedIds == {crashes[i].vehicle_id : i \in DOMAIN crashes} \ {"unknown"}

\* C6: a detected id is emitted iff its score of the frame is >= 120, with that
\* score as severity; no per-vehicle crash has a severity below 120
C6_EmittedIffScoreReachesThreshold ==
    /\ DOMAIN crash_scores = IdSet(detections)
    /\ \A id \in IdSet(detections) : (id \in EmittedIds) <=> (crash_scores[id] >= 120)
    /\ \A i \in DOMAIN crashes :
           crashes[i].vehicle_id # "unknown"
           => /\ crashes[i].vehicle_id \in IdSet(detections)
              /\ crashes[i].severity = crash_scores[crashes[i].vehicle_id]
              /\ crashes[i].severity >= 120

\* one frame in which v1 scores exactly 120 (Moderate shake + Extreme growth) and
\* is emitted while v2 scores 60 and is not
C6_Witness ==
    /\ pc = "loop" /\ detections = <<V1Grown, V2Still>>
    /\ crash_scores["v1"] = 120 /\ crash_scores["v2"] = 60
    /\ EmittedIds = {"v1"}
    /\ crashes[1].evidence = <<"Moderate shake", "Extreme growth">>

\* C8: right after clear_tracking_data every global has its import-time value,
\* whatever the previous session left; so the first frame of the session finds
\* no history: one sample per history it feeds, no velocity, no crash
C8_ClearRestoresFreshState ==
    /\ cleared_from # None => Globals = InitGlobals
    /\ (pc = "loop" /\ frame_count = 1)
       => /\ motion_history = <<>> /\ Len(blur_history) = 1 /\ Len(brightness_history) = 1
          /\ visual_artifacts.camera_shake = 0 /\ ~visual_artifacts.impact_detected
          /\ active_vehicles = IdSet(detections)
          /\ DOMAIN track_history = IdSet(detections)
          /\ DOMAIN previous_positions = IdSet(detections)
          /\ DOMAIN last_seen_frame = IdSet(detections)
          /\ \A id \in IdSet(detections) :
                 /\ Len(track_history[id]) = 1 /\ Len(bbox_history[id]) = 1
                 /\ velocities[id] = <<>> /\ accelerations[id] = <<>>
                 /\ bbox_growth_rates[id] = <<>>
                 /\ crash_scores[id] = 0
          /\ crashes = <<>> /\ crash_alerts = {}
          /\ crash_detected_frame = None /\ total_unique_crashes = 0
          /\ crash_frames = <<>>

\* a clear that replaced a used state: tracks of two vehicles, artifact
\* histories, a previous frame, an incident with its frames and alerts
C8_Witness ==
    /\ pc = "loop" /\ frame_count = 0 /\ cleared_from # None
    /\ LET G == cleared_from[1]
       IN  /\ G.active_vehicles = {"v1", "v2"}
           /\ Len(G.track_history["v1"]) >= 4 /\ Len(G.velocities["v1"]) >= 3
           /\ Len(G.accelerations["v1"]) >= 2 /\ Len(G.bbox_growth_rates["v1"]) >= 3
           /\ Len(G.motion_history) >= 3 /\ Len(G.blur_history) >= 4
           /\ Len(G.brightness_history) >= 4 /\ G.previous_frame # None
           /\ G.total_unique_crashes >= 1 /\ G.crash_detected_frame # None
           /\ G.crash_frames # <<>> /\ G.crash_alerts # {}

\* C10: the monitor returns no crash, so all_crashes is the scorer's output and
\* a frame on which the scorer emits nothing opens or extends no incident
C10_DisappearanceNeverEmitted ==
    [][(pc = "loop" /\ frame_count' = frame_count + 1)
       => /\ all_crashes' = crashes'
          /\ crashes' = <<>>
             => UNCHANGED <<crash_detected_frame, total_unique_crashes, crash_frames>>]_vars

\* v1 vanished next to v2 at high speed: its disappearance score is far above
\* the crash threshold, and the frame carries no evidence
C10_Witness ==
    /\ pc = "loop" /\ detections = <<V2Still>>
    /\ "v1" \in DOMAIN disappearance_scores
    /\ disappearance_scores["v1"] >= 120
    /\ all_crashes = <<>> /\ crash_detected_frame = None

----------------------------------------------------------------------------
(* SpecTrack: long sessions in which vehicle v1 follows a fixed course with a
   box that changes size every frame (and is degenerate, of width 0, every
   fourth frame); on a few frames v1 may be missed, or vehicle v2 seen too. *)

MaxFramesT == 35

\* where v1 is, and how large, on frame fc
V1At(fc) == Detection("v1", Pos((fc * fc) % 23), 10 * (fc % 4), 10 + (fc % 3))

V2Parked == Detection("v2", Pos(40), 10, 10)

\* the frames on which the detector may miss v1 or see v2
UnsteadyFrames == {3, 8, 20}

TrackDetections(fc) ==
    IF fc \in UnsteadyFrames
    THEN {<<>>, <<V1At(fc)>>, <<V2Parked, V1At(fc)>>}
    ELSE {<<V1At(fc)>>}

StartT == \E opened \in BOOLEAN : StartSession(opened)

FrameT ==
    /\ frame_count < MaxFramesT
    /\ \E dets \in TrackDetections(frame_count + 1) :
           ProcessFrame(dets, SteadyFrame, 0, FALSE)

NextTrack == StartT \/ FrameT \/ EndLoop

SpecTrack == Init /\ [][NextTrack]_vars

\* new is old with one sample appended, the oldest dropped if old held cap
Shifted(old, new, cap) ==
    /\ new # <<>>
    /\ new = IF Len(old) = cap
             THEN Tail(old) \o <<new[Len(new)]>>
             ELSE old \o <<new[Len(new)]>>

\* every history of every id is within its capacity
HistoriesWithinCapacity ==
    /\ \A id \in DOMAIN track_history : Len(track_history[id]) <= 30
    /\ \A id \in DOMAIN velocities : Len(velocities[id]) <= 10
    /\ \A id \in DOMAIN accelerations : Len(accelerations[id]) <= 5
    /\ \A id \in DOMAIN bbox_history : Len(bbox_history[id]) <= 10
    /\ \A id \in DOMAIN bbox_growth_rates : Len(bbox_growth_rates[id]) <= 5

\* over a frame, the histories of a detected id take their new sample at the
\* tail and lose their head if they were full
DetectedHistoriesShift(det) ==
    LET id == det.id
        seen == id \in DOMAIN previous_positions
    IN  /\ Shifted(Get(track_history, id, <<>>), track_history'[id], 30)
        /\ track_history'[id][Len(track_history'[id])] = det.center
        /\ Shifted(Get(bbox_history, id, <<>>), bbox_history'[id], 10)
        /\ bbox_history'[id][Len(bbox_history'[id])] = det.bbox[3] * det.bbox[4]
        /\ IF seen
           THEN Shifted(Get(velocities, id, <<>>), velocities'[id], 10)
           ELSE Get(velocities', id, <<>>) = Get(velocities, id, <<>>)
        /\ IF seen /\ Len(velocities'[id]) >= 2
           THEN Shifted(Get(accelerations, id, <<>>), accelerations'[id], 5)
           ELSE Get(accelerations', id, <<>>) = Get(accelerations, id, <<>>)
        /\ IF Len(bbox_history'[id]) >= 2
           THEN Shifted(Get(bbox_growth_rates, id, <<>>), bbox_growth_rates'[id], 5)
           ELSE Get(bbox_growth_rates', id, <<>>) = Get(bbox_growth_rates, id, <<>>)

\* over a frame, the histories of an id that is not detected keep their samples
UndetectedHistoriesKept(id) ==
    /\ Get(track_history', id, <<>>) = Get(track_history, id, <<>>)
    /\ Get(bbox_history', id, <<>>) = Get(bbox_history, id, <<>>)
    /\ Get(velocities', id, <<>>) = Get(velocities, id, <<>>)
    /\ Get(accelerations', id, <<>>) = Get(accelerations, id, <<>>)
    /\ Get(bbox_growth_rates', id, <<>>) = Get(bbox_growth_rates, id, <<>>)

\* C11: the histories of every id stay within their capacities (30, 10, 5, 10,
\* 5), and each update appends the new sample at the tail, dropping the oldest
\* sample of a full history: the histories hold the latest samples in arrival
\* order
C11_HistoriesBoundedOldestEvicted ==
    /\ []HistoriesWithinCapacity
    /\ [][(pc = "loop" /\ frame_count' = frame_count + 1)
          => /\ \A i \in DOMAIN detections' : DetectedHistoriesShift(detections'[i])
             /\ \A id \in DOMAIN track_history \ IdSet(detections') :
                    UndetectedHistoriesKept(id)]_vars

\* v1 was detected more than 30 times: every history of v1 is full and has
\* dropped samples, the positions of the first frames among them
C11_Witness ==
    /\ pc = "loop" /\ frame_count >= 34
    /\ Len(track_history["v1"]) = 30 /\ Len(velocities["v1"]) = 10
    /\ Len(accelerations["v1"]) = 5 /\ Len(bbox_history["v1"]) = 10
    /\ Len(bbox_growth_rates["v1"]) = 5
    /\ track_history["v1"][30] = V1At(frame_count).center
    /\ track_history["v1"][29] = V1At(frame_count - 1).center
    /\ track_history["v1"][1] # V1At(1).center
    /\ "v2" \in DOMAIN track_history

\* C13: the growth rate appended for a box whose previous area is 0 is exactly
\* 1 whatever the current area; for any other previous area it is the quotient
\* current area / previous area
C13_GrowthRateOfZeroAreaIsOne ==
    \A id \in DOMAIN bbox_history :
        Len(bbox_history[id]) >= 2
        => LET current_area == bbox_history[id][Len(bbox_history[id])]
               previous_area == bbox_history[id][Len(bbox_history[id]) - 1]
               rates == bbox_growth_rates[id]
           IN  /\ rates # <<>>
               /\ rates[Len(rates)][2] > 0
               /\ IF previous_area = 0
                  THEN rates[Len(rates)] = <<1, 1>>
                  ELSE rates[Len(rates)][1] * previous_area
                           = current_area * rates[Len(rates)][2]

\* v1 just grew from a box of area 0 to a box of positive area, and three
\* frames before from positive area to positive area
C13_Witness ==
    /\ pc = "loop" /\ frame_count >= 5
    /\ Len(bbox_history["v1"]) >= 5
    /\ LET areas == bbox_history["v1"]
           rates == bbox_growth_rates["v1"]
       IN  /\ areas[Len(areas) - 1] = 0 /\ areas[Len(areas)] > 0
           /\ rates[Len(rates)] = <<1, 1>>
           /\ areas[Len(areas) - 2] > areas[Len(areas) - 3]
           /\ areas[Len(areas) - 3] > 0
           /\ RateGT(rates[Len(rates) - 2], 1)

----------------------------------------------------------------------------
(* SpecStill: sessions in which vehicle v1 never leaves its place while its box
   changes size, is missed on some frames, and vehicle v2 comes and goes. *)

MaxFramesL == 5

V2Moved == Detection("v2", Pos(10), 10, 10)

StillDetections ==
    {<<>>, <<V1Near>>, <<V1Grown>>, <<V1Near, V2Still>>, <<V1Grown, V2Moved>>}

StartL == \E opened \in BOOLEAN : StartSession(opened)

FrameL ==
    /\ frame_count < MaxFramesL
    /\ \E dets \in StillDetections : ProcessFrame(dets, SteadyFrame, 0, FALSE)

NextStill == StartL \/ FrameL \/ EndLoop

SpecStill == Init /\ [][NextStill]_vars

\* every position recorded for id is the same
KeptItsPlace(id) ==
    \A i \in DOMAIN track_history[id] : track_history[id][i] = track_history[id][1]

\* C12: an id whose center never changed has, from its second detection on, a
\* velocity history of zeros only (one per detection after the first) and an
\* acceleration history of zeros only, whatever the gaps between its detections
C12_StillVehicleHasZeroVelocity ==
    \A id \in DOMAIN track_history :
        (track_history[id] # <<>> /\ KeptItsPlace(id))
        => /\ Len(velocities[id]) = Len(track_history[id]) - 1
           /\ \A i \in DOMAIN velocities[id] : velocities[id][i] = 0
           /\ \A i \in DOMAIN accelerations[id] : accelerations[id][i] = 0

\* v1 was detected on three of five frames, always in its place, while v2 moved
C12_Witness ==
    /\ pc = "loop" /\ frame_count = 5
    /\ detections # <<>> /\ detections[1].id = "v1"
    /\ Len(track_history["v1"]) = 3
    /\ velocities["v1"] = <<0, 0>> /\ accelerations["v1"] = <<0>>
    /\ "v2" \in DOMAIN velocities /\ velocities["v2"] # <<>>
    /\ velocities["v2"][1] > 0

----------------------------------------------------------------------------
(* SpecPair: sessions in which vehicle v1 jumps between two places next to the
   parked vehicles v2 and v3, the detector listing them in different orders. *)

MaxFramesP == 3

V1Away == Detection("v1", Pos(14), 10, 10)

V2Parked9 == Detection("v2", Pos(9), 10, 10)

V3Parked4 == Detection("v3", Pos(4), 10, 10)

\* detection lists of two and three vehicles in several orders
PairDetections ==
    UNION {{<<v1, V2Parked9>>, <<V2Parked9, v1>>, <<v1, V2Parked9, V3Parked4>>,
            <<V3Parked4, V2Parked9, v1>>, <<V2Parked9, v1, V3Parked4>>}
           : v1 \in {V1Away, V1Near}}

StartP == \E opened \in BOOLEAN : StartSession(opened)

FrameP ==
    /\ frame_count < MaxFramesP
    /\ \E dets \in PairDetections : ProcessFrame(dets, SteadyFrame, 0, FALSE)

NextPair == StartP \/ FrameP \/ EndLoop

SpecPair == Init /\ [][NextPair]_vars

\* the detection of id in this frame's list
DetectionOf(id) == detections[CHOOSE i \in DOMAIN detections : detections[i].id = id]

\* the number of entries of an evidence list that carry tag
Count(evidence, tag) == Cardinality({i \in DOMAIN evidence : evidence[i] = tag})

\* the points the scorer adds with each evidence entry
TagPoints(tag) ==
    CASE tag = "Major shake" -> 150
      [] tag = "Strong shake" -> 100
      [] tag = "Moderate shake" -> 60
      [] tag = "Extreme growth" -> 60
      [] tag = "High growth" -> 40
      [] tag = "Moderate growth" -> 25
      [] tag = "Large area" -> 25
      [] tag = "Medium area" -> 15
      [] tag = "Bottom frame position" -> 15
      [] tag = "High velocity" -> 25
      [] tag = "Medium velocity" -> 15
      [] tag = "Extreme deceleration" -> 40
      [] tag = "High deceleration" -> 25
      [] tag = "High-speed close approach" -> 40
      [] tag = "Close proximity with deceleration" -> 35

RECURSIVE SumPoints(_)
SumPoints(evidence) ==
    IF evidence = <<>> THEN 0
    ELSE TagPoints(Head(evidence)) + SumPoints(Tail(evidence))

\* the other detected vehicles with which id meets the high-speed rule
HighSpeedPartners(id) ==
    {other \in IdSet(detections) \ {id} :
        /\ calculate_distance(DetectionOf(id).center, DetectionOf(other).center) < 50
        /\ \/ LastOrZero(velocities, id) > 60
           \/ LastOrZero(velocities, other) > 60}

\* the other detected vehicles with which id meets the deceleration rule
DecelerationPartners(id) ==
    {other \in IdSet(detections) \ {id} :
        /\ calculate_distance(DetectionOf(id).center, DetectionOf(other).center) < 30
        /\ \/ LastOrZero(accelerations, id) < -30
           \/ LastOrZero(accelerations, other) < -30}

\* C14: whatever the order of the detection list, each vehicle receives one
\* 'High-speed close approach' entry and +40 per other vehicle closer than 50
\* with which either velocity is above 60, and one 'Close proximity with
\* deceleration' entry and +35 per other vehicle closer than 30 with which
\* either latest acceleration is below -30: every unordered pair is scored once,
\* on both sides
C14_PairRulesOncePerPairBothSides ==
    \A id \in IdSet(detections) :
        /\ Count(crash_evidence[id], "High-speed close approach")
               = Cardinality(HighSpeedPartners(id))
        /\ Count(crash_evidence[id], "Close proximity with deceleration")
               = Cardinality(DecelerationPartners(id))
        /\ crash_scores[id] = SumPoints(crash_evidence[id])

\* v1 has arrived at velocity 70 at distance 45 of v2, listed before it: both
\* receive the high-speed entry once, v2 +40 and nothing else
C14_Witness ==
    /\ pc = "loop" /\ detections = <<V2Parked9, V1Near>>
    /\ velocities["v1"] # <<>> /\ Last(velocities["v1"]) = 70
    /\ LastOrZero(velocities, "v2") = 0
    /\ calculate_distance(V1Near.center, V2Parked9.center) = 45
    /\ crash_evidence["v2"] = <<"High-speed close approach">>
    /\ crash_scores["v2"] = 40
    /\ crash_evidence["v1"] = <<"High-speed close approach", "High velocity">>
    /\ crash_scores["v1"] = 65

----------------------------------------------------------------------------
(* SpecGrowth: sessions in which vehicle v1 stays in its place while its box
   takes one of six sizes on every frame. *)

MaxFramesG == 5

\* boxes of area 2000, 4400, 13640 and 75020 (quotients 2.2, 3.1, 5.5), the
\* last one reaching the bottom of the frame; of area 60000 and 32000, not
\* reaching it
GrowthBoxes ==
    {<<40, 50>>, <<40, 110>>, <<110, 124>>, <<220, 341>>, <<400, 150>>, <<200, 160>>}

StartG == \E opened \in BOOLEAN : StartSession(opened)

FrameG ==
    /\ frame_count < MaxFramesG
    /\ \E box \in GrowthBoxes :
           ProcessFrame(<<Detection("v1", Pos(0), box[1], box[2])>>,
                        SteadyFrame, 0, FALSE)

NextGrowth == StartG \/ FrameG \/ EndLoop

SpecGrowth == Init /\ [][NextGrowth]_vars

\* the points of the bounding-box entries of an evidence list
BBoxContribution(evidence) ==
    60 * Count(evidence, "Extreme growth") + 40 * Count(evidence, "High growth")
    + 25 * Count(evidence, "Moderate growth") + 25 * Count(evidence, "Large area")
    + 15 * Count(evidence, "Medium area")
    + 15 * Count(evidence, "Bottom frame position")

\* the largest of rates exceeds k
SomeRateAbove(rates, k) == \E i \in DOMAIN rates : rates[i][1] > k * rates[i][2]

\* C15: with at least 3 growth rates, the bounding-box entries of a vehicle
\* add up to the tier of the largest of its last 3 growth rates (> 5: 60,
\* > 3: 40, > 2: 25) + the area bonus (> 50000: 25, > 30000: 15) + 15 if the
\* bottom edge of the box is beyond 85% of the frame height; with fewer than
\* 3 they add up to 0
C15_BBoxContribution ==
    \A id \in IdSet(detections) :
        LET rates == bbox_growth_rates[id]
            last3 == LastK(rates, 3)
            area == Last(bbox_history[id])
            bbox == DetectionOf(id).bbox
        IN  BBoxContribution(crash_evidence[id])
              = IF Len(rates) < 3 THEN 0
                ELSE (IF SomeRateAbove(last3, 5) THEN 60
                      ELSE IF SomeRateAbove(last3, 3) THEN 40
                      ELSE IF SomeRateAbove(last3, 2) THEN 25 ELSE 0)
                     + (IF area > 50000 THEN 25 ELSE IF area > 30000 THEN 15 ELSE 0)
                     + (IF 100 * (bbox[2] + bbox[4]) > 85 * 720 THEN 15 ELSE 0)

\* growth rates 1.0, 2.2, 3.1, 5.5 on a box that has grown to a large area at
\* the bottom of the frame: 60 + 25 + 15
C15_Witness ==
    /\ pc = "loop" /\ frame_count = 5
    /\ bbox_growth_rates["v1"] = << <<1, 1>>, <<11, 5>>, <<31, 10>>, <<11, 2>> >>
    /\ Last(bbox_history["v1"]) = 75020
    /\ crash_evidence["v1"] = <<"Extreme growth", "Large area", "Bottom frame position">>
    /\ BBoxContribution(crash_evidence["v1"]) = 100
    /\ crash_scores["v1"] = 100

----------------------------------------------------------------------------
(* SpecDownstream: sessions without detections under a still or shaking camera,
   ended in every environment of DownstreamEnvs. *)

MaxFramesW == 5

StartW == \E opened \in BOOLEAN : StartSession(opened)

FrameW ==
    /\ frame_count < MaxFramesW
    /\ \E flow \in DedupFlows : ProcessFrame(<<>>, SteadyFrame, flow, FALSE)

FinishW == \E env \in DownstreamEnvs : FinishSession(env)

NextDownstream == StartW \/ FrameW \/ FinishW

SpecDownstream == Init /\ [][NextDownstream]_vars

\* C17: nothing downstream is consulted while the frame loop runs, and however
\* the downstream services fail process_video returns normally, with
\* total_unique_crashes and crash_frames as the loop left them
C17_DownstreamFailuresNonFatal ==
    /\ [](pc = "loop" => downstream_log = <<>>)
    /\ [](pc # "raised")
    /\ [][(pc = "loop" /\ pc' # "loop")
          => UNCHANGED <<total_unique_crashes, crash_frames>>]_vars

----------------------------------------------------------------------------
(* SpecConcurrent: two threads of one process run process_video on their own
   videos, each showing vehicle v1 under a still or shaking camera; the
   scheduler switches between them between frames. *)

MaxFramesC == 4

StartC == StartSession(TRUE)

FrameC ==
    /\ frame_count < MaxFramesC
    /\ \E flow \in DedupFlows : ProcessFrame(<<V1Near>>, SteadyFrame, flow, FALSE)

NextConcurrent == StartC \/ FrameC \/ EndLoop \/ SwitchThread

SpecConcurrent == Init /\ [][NextConcurrent]_vars

\* what a session whose locals are L finds when it runs alone: the incident
\* counter counts the incidents it opened, the evidence frames are frames it
\* has processed, and no track is longer than the frames it has processed
AsWhenAlone(L) ==
    /\ total_unique_crashes = L.crash_count
    /\ \A i \in DOMAIN crash_frames : crash_frames[i] <= L.frame_count
    /\ \A id \in DOMAIN track_history : Len(track_history[id]) <= L.frame_count

\* C16: each of two interleaved sessions, while in its frame loop, finds the
\* track histories, incident counter and evidence frames it produces alone
C16_SessionsIndependent ==
    /\ pc = "loop" => AsWhenAlone(Locals)
    /\ parked.pc = "loop" => AsWhenAlone(parked)

----------------------------------------------------------------------------
(* SpecShake: sessions in which the vehicles v1 and v2 stand next to each
   other while the camera's flow magnitude takes the values around the shake
   tiers. *)

MaxFramesH == 4

\* flow magnitudes at and next to the tier limits 50, 100 and 200
ShakeFlows == {0, 50, 100, 200, 201}

FrameH ==
    /\ frame_count < MaxFramesH
    /\ \E flow \in ShakeFlows :
           ProcessFrame(<<V1Near, V2Still>>, SteadyFrame, flow, FALSE)

NextShake == StartD \/ FrameH \/ EndLoop

SpecShake == Init /\ [][NextShake]_vars

ShakeTags == {"Major shake", "Strong shake", "Moderate shake"}

\* the evidence entries of a vehicle that come from the camera shake
ShakeEntries(evidence) == {i \in DOMAIN evidence : evidence[i] \in ShakeTags}

\* the points a vehicle received with its shake entries
ShakeContribution(evidence) ==
    SumPoints([i \in 1..Cardinality(ShakeEntries(evidence)) |->
                  evidence[CHOOSE k \in ShakeEntries(evidence) :
                      Cardinality({m \in ShakeEntries(evidence) : m <= k}) = i]])

\* the one tier of a frame's artifacts
TierOf(va) ==
    IF ~va.impact_detected \/ va.camera_shake <= 50 THEN 0
    ELSE IF va.camera_shake <= 100 THEN 60
    ELSE IF va.camera_shake <= 200 THEN 100
    ELSE 150

\* C21: in each frame every detected vehicle receives the same shake
\* contribution, the one tier of the frame (0 without impact or with shake
\* <= 50, 60 up to 100, 100 up to 200, 150 above), with at most one shake
\* evidence entry
C21_OneShakeTierForEveryVehicle ==
    pc = "loop" =>
        \A id \in IdSet(detections) :
            /\ ShakeContribution(crash_evidence[id]) = TierOf(visual_artifacts)
            /\ Cardinality(ShakeEntries(crash_evidence[id])) <= 1
            /\ crash_scores[id] = SumPoints(crash_evidence[id])

\* a shake of exactly 200 after two still frames: both vehicles receive the
\* 100 of the middle tier, once
C21_Witness ==
    /\ pc = "loop" /\ detections = <<V1Near, V2Still>>
    /\ visual_artifacts.impact_detected /\ visual_artifacts.camera_shake = 200
    /\ crash_evidence["v1"] = <<"Strong shake">> /\ crash_scores["v1"] = 100
    /\ crash_evidence["v2"] = <<"Strong shake">> /\ crash_scores["v2"] = 100

----------------------------------------------------------------------------
(* The deceleration rule on a vehicle's own acceleration history, checked in
   the sessions of SpecPair, where v1 stops after a jump. *)

\* the points a vehicle received with its own deceleration entries
DecelerationContribution(evidence) ==
    40 * Count(evidence, "Extreme deceleration")
    + 25 * Count(evidence, "High deceleration")

\* C22: every detected vehicle with at least one acceleration sample receives
\* the points of the deceleration rule on its latest sample: +40 below -100,
\* otherwise +25 below -50, otherwise nothing
C22_DecelerationOnLatestSample ==
    pc = "loop" =>
        \A id \in IdSet(detections) :
            accelerations[id] # <<>> =>
                DecelerationContribution(crash_evidence[id])
                    = IF Last(accelerations[id]) < -100 THEN 40
                      ELSE IF Last(accelerations[id]) < -50 THEN 25
                      ELSE 0

----------------------------------------------------------------------------
(* SpecOrder: sessions in which the detector lists the parked vehicle v2
   before v1, which jumps between a far and a near place, under a still or
   shaking camera. *)

MaxFramesO == 4

\* v1 listed second, 100 px away from v2 or 20 px next to it
OrderDetections == {<<V2Still, V1Far>>, <<V2Still, V1Near>>}

FrameO ==
    /\ frame_count < MaxFramesO
    /\ \E dets \in OrderDetections : \E flow \in DedupFlows :
           ProcessFrame(dets, SteadyFrame, flow, FALSE)

NextOrder == StartD \/ FrameO \/ EndLoop

SpecOrder == Init /\ [][NextOrder]_vars

\* the place of an evidence entry's rule in the scorer: global shake, bbox
\* growth (growth, area, bottom position), velocity, deceleration, proximity
RuleRank(tag) ==
    CASE tag \in {"Major shake", "Strong shake", "Moderate shake"} -> 1
      [] tag \in {"Extreme growth", "High growth", "Moderate growth"} -> 2
      [] tag \in {"Large area", "Medium area"} -> 3
      [] tag = "Bottom frame position" -> 4
      [] tag \in {"High velocity", "Medium velocity"} -> 5
      [] tag \in {"Extreme deceleration", "High deceleration"} -> 6
      [] tag \in {"High-speed close approach",
                  "Close proximity with deceleration"} -> 7

\* C23: the evidence list of every emitted vehicle is ordered by rule
\* category - shake, growth, area, bottom position, velocity, deceleration,
\* proximity - wherever the vehicle stands in the detection list
C23_EvidenceInRuleOrder ==
    \A c \in DOMAIN crashes :
        \A i, j \in DOMAIN crashes[c].evidence :
            i < j => RuleRank(crashes[c].evidence[i]) <= RuleRank(crashes[c].evidence[j])

----------------------------------------------------------------------------
(* SpecEmpty: sessions in which the detector reports either nothing or the
   two vehicles v1 and v2, under flow magnitudes around the limit of the
   vehicle-less crash. *)

MaxFramesE == 4

\* flow magnitudes: still, at the limit 100, just above it, and a major shake
EmptyFlows == {0, 100, 101, 201}

EmptyDetections == {<<>>, <<V1Near, V2Still>>}

FrameE ==
    /\ frame_count < MaxFramesE
    /\ \E dets \in EmptyDetections : \E flow \in EmptyFlows :
           ProcessFrame(dets, SteadyFrame, flow, FALSE)

NextEmpty == StartD \/ FrameE \/ EndLoop

SpecEmpty == Init /\ [][NextEmpty]_vars

\* the per-vehicle track state
TrackVars ==
    <<track_history, previous_positions, velocities, accelerations, bbox_history,
      bbox_growth_rates, active_vehicles, last_seen_frame, vehicle_last_positions>>

\* the scorer's output on a frame without detections
EmptyFrameOutput ==
    (pc = "loop" /\ frame_count > 0 /\ detections = <<>>) =>
        /\ crash_scores = EmptyDict /\ crash_evidence = EmptyDict
        /\ \A i \in DOMAIN crashes : crashes[i].vehicle_id = "unknown"
        /\ IF visual_artifacts.impact_detected /\ visual_artifacts.camera_shake > 100
           THEN /\ Len(crashes) = 1
                /\ crashes[1].severity = visual_artifacts.camera_shake
           ELSE crashes = <<>>

\* C24: a frame without detections yields no per-vehicle evidence and exactly
\* one vehicle-less evidence (vehicle_id 'unknown', severity = shake magnitude,
\* also below 120) if impact_detected and shake > 100, nothing otherwise; and
\* the frame's tracker update changes no track state
C24_EmptyFrame ==
    /\ []EmptyFrameOutput
    /\ [][(pc' = "loop" /\ frame_count' = frame_count + 1 /\ detections' = <<>>)
          => /\ UNCHANGED TrackVars
             /\ update_tracking(Tracking, <<>>, frame_count') = Tracking]_vars

\* v1 and v2 have been tracked on frames 1 and 2; frame 4 has no detections and
\* a shake of 101 after a still camera: one 'unknown' evidence of severity 101,
\* and the tracks as they were
C24_Witness ==
    /\ pc = "loop" /\ frame_count = 4 /\ detections = <<>>
    /\ active_vehicles = {"v1", "v2"}
    /\ Len(track_history["v1"]) = 2 /\ last_seen_frame["v1"] = 2
    /\ visual_artifacts.impact_detected /\ visual_artifacts.camera_shake = 101
    /\ Len(crashes) = 1 /\ crashes[1].vehicle_id = "unknown"
    /\ crashes[1].severity = 101

\* the entries of the frame's output that carry no vehicle
UnknownEntries == {i \in DOMAIN crashes : crashes[i].vehicle_id = "unknown"}

\* C29: in one frame's output a vehicle-less evidence and a per-vehicle
\* evidence never occur together: 'unknown' appears only for an empty
\* detection list and at most once, and no id appears in two emitted entries
C29_UnknownOrVehiclesNeverBoth ==
    /\ Cardinality(UnknownEntries) <= 1
    /\ UnknownEntries # {} => (detections = <<>> /\ Len(crashes) = 1)
    /\ \A i, j \in DOMAIN crashes :
           crashes[i].vehicle_id = crashes[j].vehicle_id => i = j

\* a major shake with v1 and v2 in view: both are emitted, once each, and no
\* 'unknown' entry accompanies them
C29_Witness ==
    /\ pc = "loop" /\ detections = <<V1Near, V2Still>>
    /\ visual_artifacts.impact_detected /\ visual_artifacts.camera_shake = 201
    /\ Len(crashes) = 2
    /\ crashes[1].vehicle_id = "v1" /\ crashes[2].vehicle_id = "v2"

----------------------------------------------------------------------------
(* Agreement of the deduplicator fields, checked under SpecDedup *)

\* C25: the deduplicator fields agree in every state: crash_detected_frame is
\* None iff total_unique_crashes is 0 iff crash_frames is empty; crash_frames
\* is strictly increasing and, during a session, holds no frame beyond the
\* current one; and an opened incident is forgotten only by the
\* clear_tracking_data of the next session
C25_DedupFieldsAgree ==
    /\ []((crash_detected_frame = None) <=> (total_unique_crashes = 0))
    /\ []((total_unique_crashes = 0) <=> (crash_frames = <<>>))
    /\ [](\A i, j \in DOMAIN crash_frames : i < j => crash_frames[i] < crash_frames[j])
    /\ [](pc = "loop" => \A i \in DOMAIN crash_frames : crash_frames[i] <= frame_count)
    /\ [][(crash_detected_frame # None /\ crash_detected_frame' = None)
          => (pc = "idle" /\ cleared_from' # None)]_vars

\* a second session has begun after one that ended with two incidents: the
\* three fields are back at None, 0 and empty
C25_Witness ==
    /\ pc = "loop" /\ frame_count = 0
    /\ cleared_from # None
    /\ cleared_from[1].total_unique_crashes = 2
    /\ Len(cleared_from[1].crash_frames) >= 2
    /\ crash_detected_frame = None /\ total_unique_crashes = 0 /\ crash_frames = <<>>

----------------------------------------------------------------------------
(* SpecSustained: sessions without detections in which the camera is still
   until some frame and from then on shakes under a flickering light, so that
   every frame from the first evidence on carries crash evidence. *)

MaxFramesR == 28

\* the frame under a light that flickers from frame to frame
FlickerFrame(fc) == [lap |-> 900, gray |-> IF fc % 2 = 0 THEN 200 ELSE 100]

FrameR ==
    /\ frame_count < MaxFramesR
    /\ \E shaking \in (IF visual_artifacts.camera_shake > 0 THEN {TRUE} ELSE BOOLEAN) :
           IF shaking
           THEN ProcessFrame(<<>>, FlickerFrame(frame_count + 1), 250, FALSE)
           ELSE ProcessFrame(<<>>, SteadyFrame, 0, FALSE)

NextSustained == StartD \/ FrameR \/ EndLoop

SpecSustained == Init /\ [][NextSustained]_vars

----------------------------------------------------------------------------
(* History lengths by number of detections, checked under SpecTrack *)

\* the number of samples in the history of id in the dict d
Samples(d, id) == Len(Get(d, id, <<>>))

\* the lengths of the histories of an id detected k times, for the k that its
\* position history shows (k itself below 30, any k >= 30 at 30)
LengthsAfter(id, k) ==
    /\ Samples(bbox_history, id) = Min2(10, k)
    /\ Samples(bbox_growth_rates, id) = Min2(5, k - 1)
    /\ Samples(velocities, id) = Min2(10, k - 1)
    /\ Samples(accelerations, id) = Min2(5, Max2(0, k - 2))

RulesNeedingHistory ==
    {"Extreme growth", "High growth", "Moderate growth", "Large area", "Medium area",
     "Bottom frame position", "Extreme deceleration", "High deceleration"}

\* C27: each detection of an id, after any gap, adds one position up to 30
\* (so the position history of an id detected k times has min(30, k) samples),
\* and then its other histories hold min(10, k) areas, min(5, k-1) growth
\* rates, min(10, k-1) velocities and min(5, max(0, k-2)) accelerations; the
\* bbox-growth and deceleration rules give a vehicle nothing before its 4th
\* detection
C27_HistoryLengthsByDetections ==
    /\ [][(pc = "loop" /\ frame_count' = frame_count + 1)
          => \A id \in DOMAIN track_history' :
                 Samples(track_history', id)
                     = IF id \in IdSet(detections')
                       THEN Min2(30, Samples(track_history, id) + 1)
                       ELSE Samples(track_history, id)]_vars
    /\ [][cleared_from' # None => track_history' = EmptyDict]_vars
    /\ [](\A id \in DOMAIN track_history :
              Samples(track_history, id) >= 1
              => LengthsAfter(id, Samples(track_history, id)))
    /\ [](pc = "loop" =>
              \A id \in IdSet(detections) :
                  Samples(track_history, id) <= 3
                  => \A i \in DOMAIN crash_evidence[id] :
                         crash_evidence[id][i] \notin RulesNeedingHistory)

\* v1 is detected for the 4th time on frame 5, having been missed on frame 3:
\* 4 positions, 4 areas, 3 growth rates, 3 velocities, 2 accelerations, and the
\* growth rule contributes for the first time
C27_Witness ==
    /\ pc = "loop" /\ frame_count = 5 /\ "v1" \in IdSet(detections)
    /\ Samples(track_history, "v1") = 4 /\ Samples(bbox_history, "v1") = 4
    /\ Samples(bbox_growth_rates, "v1") = 3 /\ Samples(velocities, "v1") = 3
    /\ Samples(accelerations, "v1") = 2
    /\ \E i \in DOMAIN crash_evidence["v1"] :
           crash_evidence["v1"][i] \in RulesNeedingHistory

----------------------------------------------------------------------------
(* The tracker's id sets, checked under SpecStill *)

\* the ids detected since the last clear
DetectedSoFar == {id \in DOMAIN track_history : track_history[id] # <<>>}

\* C28: active_vehicles and the key sets of last_seen_frame,
\* vehicle_last_positions and previous_positions all equal the set of ids
\* detected since the last clear; over a frame the active set only grows, by
\* the frame's ids, and last_seen_frame[id] is the frame of the id's latest
\* detection
C28_IdSetsAgree ==
    /\ [](/\ active_vehicles = DetectedSoFar
          /\ DOMAIN last_seen_frame = DetectedSoFar
          /\ DOMAIN vehicle_last_positions = DetectedSoFar
          /\ DOMAIN previous_positions = DetectedSoFar)
    /\ [][(pc = "loop" /\ frame_count' = frame_count + 1)
          => /\ active_vehicles' = active_vehicles \cup IdSet(detections')
             /\ \A id \in active_vehicles' :
                    last_seen_frame'[id] = IF id \in IdSet(detections')
                                           THEN frame_count'
                                           ELSE last_seen_frame[id]]_vars

\* v2 was last detected on frame 2 and v1 is alone on frame 4: v2 is still
\* active, with its last frame 2
C28_Witness ==
    /\ pc = "loop" /\ frame_count = 4 /\ detections = <<V1Near>>
    /\ active_vehicles = {"v1", "v2"}
    /\ DOMAIN previous_positions = {"v1", "v2"}
    /\ last_seen_frame["v2"] = 2 /\ last_seen_frame["v1"] = 4

----------------------------------------------------------------------------
(* SpecStream: the MJPEG generator _frame_generator of app/api/stream.py.
   The video is abstracted to what the crash heuristic reads of each frame:
   the clipped median optical-flow magnitude and the mean of the foreground
   mask.  frames counts the frames read; flagged lists the frames on which
   crash was set. *)

MaxFramesM == 92

\* cooldown = 90
CrashCooldown == 90

\* median flow magnitudes around the limits of the drop test (> 8, drop > 5)
FlowMags == {0, 8, 9, 14}

\* foreground levels at and above the surge limit 140
MotionLevels == {140, 141}

\* as Flagged, but without the cooldown == 0 test
FlaggedDuringCooldown(g, flow_mag, motion_level) ==
    /\ g.crash_mode
    /\ \/ g.prev_speed > 8 /\ g.prev_speed - flow_mag > 5
       \/ motion_level > 140

\* the value of crash after the heuristic on a frame
Flagged(g, flow_mag, motion_level) ==
    /\ g.crash_mode
    /\ \/ g.prev_speed > 8 /\ g.prev_speed - flow_mag > 5
       \/ motion_level > 140
    /\ g.cooldown = 0

\* a request starts a generator; the source opens or RuntimeError is raised
OpenStream(crash_mode, opened) ==
    /\ frame_generator.pc # "streaming"
    /\ frame_generator' =
           IF opened
           THEN [NoGenerator EXCEPT !.pc = "streaming", !.crash_mode = crash_mode]
           ELSE [NoGenerator EXCEPT !.pc = "failed"]
    /\ UNCHANGED crash_detection_vars

\* one iteration of the generator's loop on a frame that cap.read() delivered;
\* flow is the frame's flow magnitude against the previous frame, encoded
\* whether cv2.imencode succeeded
StreamFrame(flow, motion_level, encoded) ==
    /\ frame_generator.pc = "streaming"
    /\ \E flow_mag \in {IF frame_generator.prev_gray = None THEN 0 ELSE flow} :
       \E crash \in {Flagged(frame_generator, flow_mag, motion_level)} :
       \E armed \in {IF crash THEN CrashCooldown ELSE frame_generator.cooldown} :
           frame_generator' =
               [frame_generator EXCEPT
                   !.prev_gray = Some(frame_generator.frames + 1),
                   !.prev_speed = IF frame_generator.crash_mode THEN flow_mag ELSE @,
                   !.cooldown = IF frame_generator.crash_mode /\ armed > 0
                                THEN armed - 1 ELSE armed,
                   !.crash = crash,
                   !.yielded = encoded,
                   !.frames = @ + 1,
                   !.flagged = IF crash THEN Append(@, frame_generator.frames + 1) ELSE @]
    /\ UNCHANGED crash_detection_vars

\* cap.read() fails: the loop is left and the capture released
CloseStream ==
    /\ frame_generator.pc = "streaming"
    /\ frame_generator' = [frame_generator EXCEPT !.pc = "closed"]
    /\ UNCHANGED crash_detection_vars

OpenM == \E crash_mode \in BOOLEAN, opened \in BOOLEAN : OpenStream(crash_mode, opened)

FrameM ==
    /\ frame_generator.frames < MaxFramesM
    /\ \E flow \in FlowMags, motion_level \in MotionLevels, encoded \in BOOLEAN :
           StreamFrame(flow, motion_level, encoded)

NextStream == OpenM \/ FrameM \/ CloseStream

SpecStream == Init /\ [][NextStream]_vars

\* C30: a frame is flagged only with crash_mode on and the cooldown counter at
\* 0, and the flagging leaves the counter at 89 after the frame; any two
\* flagged frames of a stream are at least 90 frames apart; the counter is
\* never negative; with crash_mode off no frame is flagged
C30_FlagsNinetyFramesApart ==
    /\ [](frame_generator.cooldown >= 0)
    /\ [](~frame_generator.crash_mode
          => ~frame_generator.crash /\ frame_generator.flagged = <<>>)
    /\ [](\A i, j \in DOMAIN frame_generator.flagged :
              i < j => frame_generator.flagged[j] - frame_generator.flagged[i] >= 90)
    /\ [][(frame_generator'.frames = frame_generator.frames + 1
           /\ frame_generator'.crash)
          => /\ frame_generator.crash_mode
             /\ frame_generator.cooldown = 0
             /\ frame_generator'.cooldown = CrashCooldown - 1]_vars

\* frame 1 and frame 91 of a stream are flagged, and the counter is at 89 again
C30_Witness ==
    /\ frame_generator.pc = "streaming" /\ frame_generator.crash_mode
    /\ frame_generator.frames = 91 /\ frame_generator.crash
    /\ frame_generator.flagged = <<1, 91>>
    /\ frame_generator.cooldown = 89

====
